---------------------------- MODULE Spec2Model ----------------------------
(***************************************************************************)
(* The staged extraction pipelines of econagents-game-spec-gen:            *)
(*   StagedGameSpecParser   (src/parse_in_stages.py)      variant "parser" *)
(*   StagedYamlInterpreter  (src/interpret_in_stages.py)  variant "yaml"   *)
(* A pipeline instance is the controller state (cursor, run-state, the     *)
(* per-stage result and error maps, the prompt record) plus the executor   *)
(* threads that run_stage starts.  Controller entry points that take       *)
(* self.lock are one action each; an executor thread is a small process    *)
(* whose steps interleave with everything else, since _run_stage_thread    *)
(* never takes the lock.                                                   *)
(***************************************************************************)
EXTENDS Integers, Sequences, FiniteSets, TLC

(***************************************************************************)
(* Bounds of the model.                                                    *)
(***************************************************************************)
\* executor threads that may be alive at the same time
MaxThreads == 2
\* run_stage dispatches in one behaviour
MaxRuns == 2

(***************************************************************************)
(* JSON values, as json.loads builds them.  Python's None is JSON null.    *)
(***************************************************************************)
JNull == [kind |-> "null"]
None == JNull
JBool(b) == [kind |-> "bool", b |-> b]
JNum(n) == [kind |-> "num", n |-> n]
JStr(s) == [kind |-> "str", s |-> s]
JList(elems) == [kind |-> "list", elems |-> elems]
\* an object from its <<key, value>> pairs in document order; a repeated
\* key keeps its first position and its last value, as a Python dict does
RECURSIVE DictKeys(_)
DictKeys(pairs) ==
    IF pairs = <<>> THEN <<>>
    ELSE LET front == DictKeys(SubSeq(pairs, 1, Len(pairs) - 1))
             k == pairs[Len(pairs)][1]
         IN IF \E i \in 1..Len(front) : front[i] = k THEN front
            ELSE Append(front, k)
JDict(pairs) ==
    [kind |-> "dict",
     keys |-> DictKeys(pairs),
     items |-> [k \in {pairs[i][1] : i \in 1..Len(pairs)} |->
                  pairs[CHOOSE i \in 1..Len(pairs) :
                          /\ pairs[i][1] = k
                          /\ \A j \in (i+1)..Len(pairs) : pairs[j][1] # k][2]]]

\* bool(v): the truth value Python gives a value in `if v` and all(...)
Truthy(v) ==
    CASE v.kind = "null" -> FALSE
      [] v.kind = "bool" -> v.b
      [] v.kind = "num"  -> v.n # 0
      [] v.kind = "str"  -> v.s # ""
      [] v.kind = "list" -> Len(v.elems) > 0
      [] v.kind = "dict" -> Len(v.keys) > 0

\* `if text` on an optional text: neither None nor the empty string
IsSet(text) == text # None /\ text # JStr("")

IsDict(v) == v.kind = "dict"
IsList(v) == v.kind = "list"

\* `k in data` is defined for containers; on None, a bool or a number it
\* raises TypeError (argument of type ... is not iterable).  Top-level string
\* payloads are outside the responses the model draws.
InRaises(v) == v.kind \in {"null", "bool", "num"}
PyIn(k, v) ==
    CASE v.kind = "dict" -> k \in DOMAIN v.items
      [] v.kind = "list" -> \E i \in 1..Len(v.elems) : v.elems[i] = JStr(k)
      [] OTHER -> FALSE

\* d.get(k, default) on a dict
DictGet(d, k, default) == IF k \in DOMAIN d.items THEN d.items[k] ELSE default

\* a message string, kept as the sequence of its parts
Msg(parts) == [kind |-> "msg", parts |-> parts]

\* [x for x in seq if P(x)]
RECURSIVE SelectSeqOf(_, _)
SelectSeqOf(seq, keep) ==
    IF seq = <<>> THEN <<>>
    ELSE IF Head(seq) \in keep THEN <<Head(seq)>> \o SelectSeqOf(Tail(seq), keep)
         ELSE SelectSeqOf(Tail(seq), keep)

Range(seq) == {seq[i] : i \in 1..Len(seq)}

(***************************************************************************)
(* The stage lists, fixed at construction.                                 *)
(***************************************************************************)
Variants == {"parser", "yaml"}
ParserStages == <<"meta_roles_phases", "state", "settings_ui", "partial_prompts">>
YamlStages == <<"meta", "roles", "state", "phases", "prompts", "settings", "ui">>
\* FreshInterpreter: seven extraction stages and the assembly stage
FreshStages == <<"meta", "agent_roles", "state", "role_prompts", "agents",
                 "manager", "runner", "finalize">>
FINALIZE == "finalize"
\* InterpretInStages: six extraction stages and the assembly stage
FullStages == <<"meta_partials", "roles_phases", "state", "prompt_partials",
                "role_prompts", "agents", "finalize">>
\* the pipelines with a public interface
Pipelines == Variants \cup {"fresh"}
Stages(v) ==
    CASE v = "parser" -> ParserStages
      [] v = "yaml" -> YamlStages
      [] v = "fresh" -> FreshStages
      [] v = "full" -> FullStages
StageSet(v) == Range(Stages(v))

(***************************************************************************)
(* The responses the LLM gateway is drawn to give, and json.loads on them. *)
(***************************************************************************)
MetaFields == <<"game_name", "game_description", "game_version", "author1",
                "author2", "creation_date">>
GoodMeta == JDict([i \in 1..Len(MetaFields) |-> <<MetaFields[i], JStr("x")>>])
GoodRole == JDict(<< <<"id", JNum(1)>>, <<"name", JStr("Buyer")>>,
                     <<"llm", JStr("gpt")>>, <<"notes", JStr("")>>,
                     <<"phases", JList(<<JNum(1)>>)>> >>)
GoodPhase == JDict(<< <<"phase", JStr("Bid")>>, <<"phase_number", JNum(1)>>,
                      <<"actionable", JBool(TRUE)>>,
                      <<"role_tasks",
                        JDict(<< <<"Buyer", JList(<<JStr("submit bid")>>)>> >>)>> >>)
\* a complete meta_roles_phases answer
MetaPayload == JDict(<< <<"meta", GoodMeta>>, <<"roles", JList(<<GoodRole>>)>>,
                        <<"phases", JList(<<GoodPhase>>)>>,
                        <<"payoff_consequences", JList(<<>>)>> >>)
\* all four required keys, but a meta object without the fields of Meta
MetaNoFieldsPayload == JDict(<< <<"meta", JDict(<<>>)>>, <<"roles", JList(<<>>)>>,
                                <<"phases", JList(<<>>)>>,
                                <<"payoff_consequences", JList(<<>>)>> >>)
\* the required key "phases" is absent
MetaMissingPayload == JDict(<< <<"meta", GoodMeta>>, <<"roles", JList(<<GoodRole>>)>>,
                               <<"payoff_consequences", JList(<<>>)>> >>)
StatePayload == JDict(<< <<"state", JDict(<< <<"round", JNum(0)>> >>)>> >>)
SettingsPayload == JDict(<< <<"settings", JDict(<<>>)>>, <<"ui", JDict(<<>>)>> >>)
Partial(name) == JDict(<< <<"name", JStr(name)>>, <<"content", JStr("text")>> >>)
\* the five partials MetaPayload calls for
PartialsPayload ==
    JDict(<< <<"prompt_partials",
               JList(<<Partial("game_description"), Partial("game_information"),
                       Partial("game_history"), Partial("system_buyer_1"),
                       Partial("user_buyer_1")>>)>> >>)
\* the three generic partials only
BasePartialsPayload ==
    JDict(<< <<"prompt_partials",
               JList(<<Partial("game_description"), Partial("game_information"),
                       Partial("game_history")>>)>> >>)
\* the three generic partials, the first of them twice
RepeatedPartialsPayload ==
    JDict(<< <<"prompt_partials",
               JList(<<Partial("game_description"), Partial("game_information"),
                       Partial("game_history"), Partial("game_description")>>)>> >>)
AnswerPayload == JDict(<< <<"k", JNum(1)>> >>)
Wrapped(stage, value) == JDict(<< <<stage, value>> >>)

(* FreshInterpreter answers: every stage's prompt asks for an object with  *)
(* the stage's section under its own name.                                 *)
FreshRole(raw_role_id, name, llm_type) ==
    JDict(<< <<"raw_role_id", JStr(raw_role_id)>>, <<"name", JStr(name)>>,
             <<"llm_type", JStr(llm_type)>>, <<"llm_params", JDict(<<>>)>>,
             <<"task_phases", JList(<<JNum(1)>>)>>,
             <<"task_phases_excluded", JList(<<JNum(2)>>)>>,
             <<"notes", JStr("")>> >>)
FreshRolePrompt(raw_role_id, kind, content) ==
    JDict(<< <<"raw_role_id", JStr(raw_role_id)>>, <<"phase_name", JStr("Bid")>>,
             <<"kind", JStr(kind)>>, <<"content", JStr(content)>> >>)
FreshAgent(id, raw_role_ref) ==
    JDict(<< <<"id", id>>, <<"raw_role_ref", JStr(raw_role_ref)>> >>)
FreshField(name) ==
    JDict(<< <<"name", name>>, <<"type", JStr("int")>>, <<"default", JNum(0)>> >>)
RunnerKeys == <<"type", "protocol", "hostname", "path", "port", "game_id",
                "logs_dir", "log_level", "prompts_dir",
                "phase_transition_event", "phase_identifier_key",
                "observability_provider", "continuous_phases",
                "min_action_delay", "max_action_delay">>
\* the section a complete answer of `stage` carries
FreshSection(stage) ==
    CASE stage = "meta" ->
           JDict(<< <<"name", JStr("Market")>>,
                    <<"description", JStr("A double auction")>> >>)
      [] stage = "agent_roles" ->
           JList(<<FreshRole("buyer", "Buyer", "cannot infer"),
                   FreshRole("seller", "Seller", "ChatOpenAI")>>)
      [] stage = "state" ->
           JDict(<< <<"meta_information", JList(<<FreshField(JStr("round")),
                                                  FreshField(JStr(""))>>)>>,
                    <<"private_information", JList(<<>>)>>,
                    <<"public_information", JList(<<FreshField(JStr("price"))>>)>> >>)
      [] stage = "role_prompts" ->
           JList(<<FreshRolePrompt("buyer", "system", "You are a buyer."),
                   FreshRolePrompt("auctioneer", "system", "You run the auction."),
                   FreshRolePrompt("seller", "user", "")>>)
      [] stage = "agents" ->
           JList(<<FreshAgent(JNum(1), "buyer"), FreshAgent(JStr("two"), "seller"),
                   FreshAgent(JNum(3), "auctioneer")>>)
      [] stage = "manager" ->
           JDict(<< <<"type", JStr("cannot infer")>>,
                    <<"event_handlers", JList(<<>>)>> >>)
      [] stage = "runner" ->
           JDict([i \in 1..Len(RunnerKeys) |->
                    <<RunnerKeys[i],
                      CASE RunnerKeys[i] \in {"port", "game_id"} -> JNum(8000)
                        [] RunnerKeys[i] = "min_action_delay" -> JStr("cannot infer")
                        [] RunnerKeys[i] = "max_action_delay" -> JNum(7)
                        [] RunnerKeys[i] = "continuous_phases" -> JList(<<>>)
                        [] RunnerKeys[i] = "hostname" -> JStr("localhost")
                        [] OTHER -> JStr("cannot infer")>>])
\* the answer in the shape the prompt asks for; agent_roles carries the two
\* phase tables beside its section
FreshPayload(stage) ==
    IF stage = "agent_roles"
    THEN JDict(<< <<stage, FreshSection(stage)>>,
                  <<"phase_number_map", JDict(<<>>)>>,
                  <<"actionable_phase_numbers", JList(<<>>)>> >>)
    ELSE Wrapped(stage, FreshSection(stage))
\* a meta answer whose object lacks the description
FreshMetaNoDescription ==
    Wrapped("meta", JDict(<< <<"name", JStr("Market")>> >>))

FreshText == "{<stage>: the stage's section}"
FreshDirectText == "the stage's section, not wrapped"
FreshMetaNoDescriptionText == "{meta:{name:Market}}"
FreshExtractionStages == SubSeq(FreshStages, 1, Len(FreshStages) - 1)

(* InterpretInStages answers: the object each extraction stage asks for.   *)
FullRole(role_id_raw, name) ==
    JDict(<< <<"role_id_raw", JStr(role_id_raw)>>, <<"name", JStr(name)>>,
             <<"llm_type", JStr("cannot infer")>>,
             <<"llm_params", JStr("cannot infer")>>,
             <<"task_phases_inferred", JList(<<JNum(1)>>)>> >>)
FullRolePrompt(role_identifier, kind, text) ==
    JDict(<< <<"role_identifier", JStr(role_identifier)>>,
             <<"phase", JNum(1)>>, <<"kind", JStr(kind)>>,
             <<"text", JStr(text)>> >>)
FullAgent(id, role_ref) ==
    JDict(<< <<"id", id>>, <<"role_ref", JStr(role_ref)>> >>)
FullPartial(name, content) ==
    JDict(<< <<"name", JStr(name)>>, <<"content", JStr(content)>> >>)
FullField(key, name, type, default) ==
    JDict(<< <<key, JStr(name)>>, <<"type", type>>, <<"default", default>> >>)
FullMeta(meta, prompt_partials) ==
    JDict(<< <<"meta", meta>>, <<"prompt_partials", JList(prompt_partials)>> >>)
FullRoles(roles) ==
    JDict(<< <<"roles", JList(roles)>>, <<"phase_numbers", JList(<<JNum(1)>>)>>,
             <<"actionable_phases", JList(<<JNum(1)>>)>>,
             <<"role_task_map", JDict(<<>>)>> >>)
FullState(meta_information, private_information, public_information) ==
    JDict(<< <<"state",
               JDict(<< <<"meta_information", JList(meta_information)>>,
                        <<"private_information", JList(private_information)>>,
                        <<"public_information", JList(public_information)>> >>)>> >>)
\* a complete answer of `stage`
FullPayload(stage) ==
    CASE stage = "meta_partials" ->
           FullMeta(JDict(<< <<"name", JStr("Market")>>,
                             <<"description", JStr("cannot infer")>> >>),
                    <<FullPartial("game_description", "cannot infer"),
                      FullPartial("game_history", "No history yet.")>>)
      [] stage = "roles_phases" ->
           FullRoles(<<FullRole("buyer", "Buyer"), FullRole("seller", "Seller")>>)
      [] stage = "state" ->
           FullState(<<FullField("name", "round", JStr("int"), JNum(0))>>,
                     <<FullField("id", "value", JStr("cannot infer"),
                                 JStr("cannot infer"))>>,
                     <<FullField("name", "", JStr("int"), JNum(0))>>)
      [] stage = "prompt_partials" ->
           JDict(<< <<"prompt_partials",
                      JList(<<FullPartial("game_description", "A double auction."),
                              FullPartial("game_history", "cannot infer")>>)>> >>)
      [] stage = "role_prompts" ->
           JDict(<< <<"role_prompts",
                      JList(<<FullRolePrompt("seller", "system", "You sell."),
                              FullRolePrompt("auctioneer", "system", "You call."),
                              FullRolePrompt("buyer", "user", "cannot infer")>>)>> >>)
      [] stage = "agents" ->
           JDict(<< <<"agents",
                      JList(<<FullAgent(JNum(1), "seller"),
                              FullAgent(JStr("two"), "buyer"),
                              FullAgent(JNum(3), "auctioneer")>>)>> >>)
\* a roles answer without its role_task_map
FullRolesNoMap ==
    JDict(<< <<"roles", JList(<<>>)>>, <<"phase_numbers", JList(<<>>)>>,
             <<"actionable_phases", JList(<<>>)>> >>)

FullText == "the object the stage asks for"
FullRolesNoMapText == "{roles:[], phase_numbers:[], actionable_phases:[]}"

NotJsonText == "{not valid json"
\* s + s + ... + s, n times
RECURSIVE Repeat(_, _)
Repeat(s, n) == IF n = 0 THEN "" ELSE s \o Repeat(s, n - 1)
\* a malformed answer of 601 characters
LongNotJsonText == "{" \o Repeat("not valid json ", 40)
NullText == "null"
EmptyListText == "[]"
MetaText == "{meta, roles:[Buyer], phases:[Bid], payoff_consequences:[]}"
MetaNoFieldsText == "{meta:{}, roles:[], phases:[], payoff_consequences:[]}"
MetaMissingText == "{meta, roles:[Buyer], payoff_consequences:[]}"
StateText == "{state:{round:0}}"
SettingsText == "{settings:{}, ui:{}}"
PartialsText == "{prompt_partials:[5 names]}"
BasePartialsText == "{prompt_partials:[3 names]}"
RepeatedPartialsText == "{prompt_partials:[3 names, the first again]}"
WrappedAnswerText == "{<stage>:{k:1}}"
WrappedNullText == "{<stage>:null}"

\* what the gateway may answer to a prompt of `stage` (the text stands for
\* the JSON document named by it; <stage> is the stage's own identifier)
Responses(v, stage) ==
    IF v = "yaml"
    THEN {NotJsonText, EmptyListText, WrappedAnswerText, WrappedNullText}
    ELSE IF v = "full"
    THEN {NotJsonText, FullText} \cup
         (IF stage = "roles_phases" THEN {NullText, FullRolesNoMapText} ELSE {})
    ELSE IF v = "fresh"
    THEN {NotJsonText, FreshText} \cup
         (IF stage = "meta"
          THEN {LongNotJsonText, NullText, FreshDirectText,
                FreshMetaNoDescriptionText}
          ELSE {})
    ELSE {NotJsonText, NullText} \cup
         CASE stage = "meta_roles_phases" ->
                {MetaText, MetaNoFieldsText, MetaMissingText, LongNotJsonText}
           [] stage = "state" -> {StateText}
           [] stage = "settings_ui" -> {SettingsText}
           [] stage = "partial_prompts" ->
                {PartialsText, BasePartialsText, RepeatedPartialsText}

AllResponses ==
    UNION {Responses(v, Stages(v)[i]) : v \in Pipelines \cup {"full"}, i \in 1..4}

\* json.loads(response): the parsed value, or the exception it raises
JsonLoads(stage, text) ==
    CASE text = NullText -> [ok |-> TRUE, value |-> JNull]
      [] text = EmptyListText -> [ok |-> TRUE, value |-> JList(<<>>)]
      [] text = MetaText -> [ok |-> TRUE, value |-> MetaPayload]
      [] text = MetaNoFieldsText -> [ok |-> TRUE, value |-> MetaNoFieldsPayload]
      [] text = MetaMissingText -> [ok |-> TRUE, value |-> MetaMissingPayload]
      [] text = StateText -> [ok |-> TRUE, value |-> StatePayload]
      [] text = SettingsText -> [ok |-> TRUE, value |-> SettingsPayload]
      [] text = PartialsText -> [ok |-> TRUE, value |-> PartialsPayload]
      [] text = BasePartialsText -> [ok |-> TRUE, value |-> BasePartialsPayload]
      [] text = RepeatedPartialsText ->
            [ok |-> TRUE, value |-> RepeatedPartialsPayload]
      [] text = WrappedAnswerText ->
            [ok |-> TRUE, value |-> Wrapped(stage, AnswerPayload)]
      [] text = WrappedNullText -> [ok |-> TRUE, value |-> Wrapped(stage, JNull)]
      [] text = FreshText -> [ok |-> TRUE, value |-> FreshPayload(stage)]
      [] text = FullText -> [ok |-> TRUE, value |-> FullPayload(stage)]
      [] text = FullRolesNoMapText -> [ok |-> TRUE, value |-> FullRolesNoMap]
      [] text = FreshDirectText -> [ok |-> TRUE, value |-> FreshSection(stage)]
      [] text = FreshMetaNoDescriptionText ->
            [ok |-> TRUE, value |-> FreshMetaNoDescription]
      [] OTHER -> [ok |-> FALSE, value |-> JNull]
JsonDecodeError == "Expecting property name enclosed in double quotes"

(***************************************************************************)
(* StagedGameSpecParser: the schema validator, the GameSpec update and the *)
(* context of a stage's prompt.                                            *)
(***************************************************************************)
Returned(valid, error) == [raised |-> FALSE, valid |-> valid, error |-> error]
Raised(error) == [raised |-> TRUE, valid |-> FALSE, error |-> error]
TypeErrorNotIterable == Msg(<<"argument of type is not iterable">>)
TypeErrorIndex == Msg(<<"indices must be integers">>)

\* ', '.join(names)
RECURSIVE Join(_)
Join(names) ==
    IF Len(names) <= 1 THEN names
    ELSE <<Head(names), ", ">> \o Join(Tail(names))

\* the elements of a set in the order a Python set happens to iterate them
RECURSIVE SetOrder(_)
SetOrder(set) ==
    IF set = {} THEN <<>>
    ELSE LET x == CHOOSE y \in set : TRUE IN <<x>> \o SetOrder(set \ {x})

RequiredKeys(stage) ==
    CASE stage = "meta_roles_phases" ->
            <<"meta", "roles", "phases", "payoff_consequences">>
      [] stage = "settings_ui" -> <<"settings", "ui">>

\* [k for k in required if k not in data]
MissingKeys(required, data) ==
    SelectSeqOf(required, {k \in Range(required) : ~PyIn(k, data)})

ValidatePartials(data, expected_partial_names) ==
    IF ~PyIn("prompt_partials", data)
    THEN Returned(FALSE, Msg(<<"Missing 'prompt_partials' field">>))
    ELSE IF ~IsDict(data) THEN Raised(TypeErrorIndex)
    ELSE IF ~IsList(data.items["prompt_partials"])
    THEN Returned(FALSE, Msg(<<"'prompt_partials' must be a list">>))
    ELSE
      LET pp == data.items["prompt_partials"].elems
          NotPartial(i) == \/ ~IsDict(pp[i])
                           \/ ~PyIn("name", pp[i])
                           \/ ~PyIn("content", pp[i])
          Duplicate(i) == /\ ~NotPartial(i)
                          /\ \E j \in 1..(i-1) :
                                pp[j].items["name"] = pp[i].items["name"]
          failing == {i \in 1..Len(pp) : NotPartial(i) \/ Duplicate(i)}
          first == CHOOSE i \in failing : \A j \in failing : i <= j
          names == {pp[i].items["name"].s : i \in 1..Len(pp)}
          missing_required ==
              SelectSeqOf(expected_partial_names,
                          Range(expected_partial_names) \ names)
          extra == SetOrder(names \ Range(expected_partial_names))
      IN IF failing # {}
         THEN IF NotPartial(first)
              THEN Returned(FALSE,
                     Msg(<<"Each partial must be an object with 'name' and 'content' (error at index ",
                           ToString(first - 1), ")">>))
              ELSE Returned(FALSE, Msg(<<"Duplicate partial name detected: ",
                                         pp[first].items["name"].s>>))
         ELSE IF missing_required # <<>>
         THEN Returned(FALSE, Msg(<<"Missing required partial(s): ">>
                                  \o Join(missing_required)))
         ELSE IF extra # <<>>
         THEN Returned(FALSE, Msg(<<"Unexpected extra partial name(s): ">>
                                  \o Join(extra)))
         ELSE Returned(TRUE, None)

\* _validate_stage(stage, data): (valid, error), or the exception it raises
\* when `in` is applied to a payload that is no container
_validate_stage(stage, data, expected_partial_names) ==
    IF InRaises(data) THEN Raised(TypeErrorNotIterable)
    ELSE CASE stage \in {"meta_roles_phases", "settings_ui"} ->
                LET missing == MissingKeys(RequiredKeys(stage), data)
                IN IF missing # <<>>
                   THEN Returned(FALSE, Msg(<<"Missing required fields: ">>
                                            \o Join(missing)))
                   ELSE Returned(TRUE, None)
           [] stage = "state" ->
                IF ~PyIn("state", data)
                THEN Returned(FALSE, Msg(<<"Missing 'state' field">>))
                ELSE Returned(TRUE, None)
           [] stage = "partial_prompts" ->
                ValidatePartials(data, expected_partial_names)

\* GameSpec(): the fields of a fresh GameSpec
NewGameSpec ==
    [meta |-> None, roles |-> JList(<<>>), phases |-> JList(<<>>),
     payoff_consequences |-> JList(<<>>), state |-> None,
     partial_prompts |-> None, settings |-> None, ui |-> None]

\* Cls(**obj) succeeds when obj is an object with exactly the constructor's
\* parameters as keys, and raises TypeError otherwise
Constructs(obj, params) == IsDict(obj) /\ DOMAIN obj.items = params
\* [Cls(**x) for x in value] succeeds on a list of such objects (on an
\* empty object too: iterating it yields nothing)
ConstructsAll(value, params) ==
    \/ IsList(value) /\ \A i \in 1..Len(value.elems) :
                           Constructs(value.elems[i], params)
    \/ IsDict(value) /\ value.keys = <<>>
AsList(value) == IF IsList(value) THEN value ELSE JList(<<>>)
RoleParams == {"id", "name", "llm", "notes", "phases"}
PhaseParams == {"phase", "phase_number", "actionable", "role_tasks"}
PayoffParams == {"phase", "role", "choice", "payoff"}
TypeErrorArgs == Msg(<<"__init__() missing required positional arguments">>)

\* _update_game_spec(stage, data) on a payload the validator accepted:
\* the GameSpec it leaves, and whether it raised on the way.  The fields it
\* assigned before raising stay assigned.
_update_game_spec(stage, data, gs) ==
    IF ~IsDict(data) THEN [raised |-> TRUE, error |-> TypeErrorIndex, game_spec |-> gs]
    ELSE
    CASE stage = "meta_roles_phases" ->
           LET d == data.items
               g1 == [gs EXCEPT !.meta = d["meta"]]
               g2 == [g1 EXCEPT !.roles = AsList(d["roles"])]
               g3 == [g2 EXCEPT !.phases = AsList(d["phases"])]
               g4 == [g3 EXCEPT !.payoff_consequences =
                                   AsList(d["payoff_consequences"])]
               fail(g) == [raised |-> TRUE, error |-> TypeErrorArgs, game_spec |-> g]
           IN IF ~Constructs(d["meta"], Range(MetaFields)) THEN fail(gs)
              ELSE IF ~ConstructsAll(d["roles"], RoleParams) THEN fail(g1)
              ELSE IF ~ConstructsAll(d["phases"], PhaseParams) THEN fail(g2)
              ELSE IF ~ConstructsAll(d["payoff_consequences"], PayoffParams)
              THEN fail(g3)
              ELSE [raised |-> FALSE, error |-> None, game_spec |-> g4]
      [] stage = "state" ->
           [raised |-> FALSE, error |-> None,
            game_spec |-> [gs EXCEPT !.state = data.items["state"]]]
      [] stage = "settings_ui" ->
           [raised |-> FALSE, error |-> None,
            game_spec |-> [gs EXCEPT !.settings = data.items["settings"],
                                     !.ui = data.items["ui"]]]
      [] stage = "partial_prompts" ->
           [raised |-> FALSE, error |-> None,
            game_spec |-> [gs EXCEPT !.partial_prompts =
                                        data.items["prompt_partials"]]]

UpperCase == "ABCDEFGHIJKLMNOPQRSTUVWXYZ"
LowerCase == "abcdefghijklmnopqrstuvwxyz"
\* one character of name.lower().replace(" ", "_")
SnakeChar(c) ==
    IF c = " " THEN "_"
    ELSE IF \E i \in 1..Len(UpperCase) : SubSeq(UpperCase, i, i) = c
    THEN LET i == CHOOSE j \in 1..Len(UpperCase) : SubSeq(UpperCase, j, j) = c
         IN SubSeq(LowerCase, i, i)
    ELSE c
\* to_snake(name): name.lower().replace(" ", "_")
RECURSIVE to_snake(_)
to_snake(name) ==
    IF name = "" THEN ""
    ELSE SnakeChar(SubSeq(name, 1, 1)) \o to_snake(SubSeq(name, 2, Len(name)))

\* str(value) inside an f-string
Fmt(value) ==
    CASE value.kind = "num" -> ToString(value.n)
      [] value.kind = "str" -> value.s
      [] OTHER -> "None"

\* the names add_partial records for one phase: for every role of
\* role_tasks, in document order, that has tasks, a system and a user slot
RECURSIVE RoleSlots(_, _, _)
RoleSlots(role_names, role_tasks, phase_number) ==
    IF role_names = <<>> THEN <<>>
    ELSE LET role_name == Head(role_names)
             rest == RoleSlots(Tail(role_names), role_tasks, phase_number)
         IN IF ~Truthy(role_tasks.items[role_name]) THEN rest
            ELSE <<"system_" \o to_snake(role_name) \o "_" \o Fmt(phase_number),
                   "user_" \o to_snake(role_name) \o "_" \o Fmt(phase_number)>>
                 \o rest

RECURSIVE PhaseSlots(_)
PhaseSlots(phases) ==
    IF phases = <<>> THEN <<>>
    ELSE LET ph == Head(phases)
             role_tasks == LET rt == DictGet(ph, "role_tasks", JDict(<<>>))
                           IN IF Truthy(rt) THEN rt ELSE JDict(<<>>)
         IN (IF ~Truthy(DictGet(ph, "actionable", None)) THEN <<>>
             ELSE RoleSlots(role_tasks.keys, role_tasks,
                            DictGet(ph, "phase_number", None)))
            \o PhaseSlots(Tail(phases))

\* a skeleton that gives every phase its slots, actionable or not
NamesOfEveryPhase(phases) ==
    <<"game_description", "game_information", "game_history">>
    \o PhaseSlots([i \in 1..Len(phases.elems) |->
                     JDict(<< <<"actionable", JBool(TRUE)>>,
                              <<"phase_number",
                                DictGet(phases.elems[i], "phase_number", None)>>,
                              <<"role_tasks",
                                DictGet(phases.elems[i], "role_tasks",
                                        JDict(<<>>))>> >>)])

\* the skeleton's names, in the order add_partial is called
ExpectedPartialNames(phases) ==
    <<"game_description", "game_information", "game_history">>
    \o PhaseSlots(phases.elems)

\* the loop over phases needs a list of objects whose role_tasks, when
\* present and truthy, is an object; anything else raises
PhasesWellFormed(phases) ==
    /\ IsList(phases)
    /\ \A i \in 1..Len(phases.elems) :
          /\ IsDict(phases.elems[i])
          /\ LET rt == DictGet(phases.elems[i], "role_tasks", JDict(<<>>))
             IN Truthy(rt) /\ Truthy(DictGet(phases.elems[i], "actionable", None))
                  => IsDict(rt)

Section(label, value) == [label |-> label, value |-> value]
EmptyList == JList(<<>>)
EmptyDict == JDict(<<>>)

\* _compose_context_for_stage(stage): the context sections (none stands for
\* the empty string) and the expected partial names it leaves; raised when
\* a stored result it reads is truthy but no object
_compose_context_for_stage(stage, results, expected) ==
    LET meta == results["meta_roles_phases"]
        st == results["state"]
        settings == results["settings_ui"]
        ok(sections, names) ==
            [raised |-> FALSE, context |-> sections, expected |-> names]
        raise == [raised |-> TRUE, context |-> <<>>, expected |-> expected]
    IN CASE stage = "meta_roles_phases" -> ok(<<>>, expected)
         [] stage = "state" ->
              IF ~Truthy(meta) THEN ok(<<>>, expected)
              ELSE IF ~IsDict(meta) THEN raise
              ELSE ok(<<Section("ROLES", DictGet(meta, "roles", EmptyList)),
                        Section("PHASES", DictGet(meta, "phases", EmptyList)),
                        Section("PAYOFF CONSEQUENCES",
                                DictGet(meta, "payoff_consequences", EmptyList))>>,
                      expected)
         [] stage = "settings_ui" ->
              IF (Truthy(meta) /\ ~IsDict(meta)) \/ (Truthy(st) /\ ~IsDict(st))
              THEN raise
              ELSE ok((IF Truthy(meta)
                       THEN <<Section("META", DictGet(meta, "meta", EmptyDict)),
                              Section("ROLES", DictGet(meta, "roles", EmptyList)),
                              Section("PHASES", DictGet(meta, "phases", EmptyList))>>
                       ELSE <<>>)
                      \o (IF Truthy(st)
                          THEN <<Section("STATE VARIABLES",
                                         DictGet(st, "state", EmptyDict))>>
                          ELSE <<>>),
                      expected)
         [] stage = "partial_prompts" ->
              IF \/ Truthy(meta) /\ ~IsDict(meta)
                 \/ Truthy(st) /\ ~IsDict(st)
                 \/ Truthy(settings) /\ ~IsDict(settings)
              THEN raise
              ELSE
              LET roles == IF Truthy(meta) THEN DictGet(meta, "roles", EmptyList)
                           ELSE EmptyList
                  phases == IF Truthy(meta) THEN DictGet(meta, "phases", EmptyList)
                            ELSE EmptyList
                  payoff == IF Truthy(meta)
                            THEN DictGet(meta, "payoff_consequences", EmptyList)
                            ELSE EmptyList
              IN IF ~PhasesWellFormed(phases)
                 THEN [raised |-> TRUE, context |-> <<>>,
                       expected |-> <<"game_description", "game_information",
                                      "game_history">>]
                 ELSE
                 LET names == ExpectedPartialNames(phases)
                 IN ok(<<Section("ROLES", roles), Section("PHASES", phases),
                         Section("PAYOFF CONSEQUENCES", payoff)>>
                       \o (IF Truthy(st)
                           THEN <<Section("STATE VARIABLES",
                                          DictGet(st, "state", EmptyDict))>>
                           ELSE <<>>)
                       \o (IF Truthy(settings)
                           THEN <<Section("SETTINGS",
                                          DictGet(settings, "settings", EmptyDict))>>
                           ELSE <<>>)
                       \o <<Section("SKELETON",
                                    JList([i \in 1..Len(names) |-> JStr(names[i])]))>>,
                       names)

\* the prompt _render_prompt builds: header, context and the rendered
\* template with the instructions read from the selected file
StandardPrompt(stage, context, path) ==
    [kind |-> "prompt", stage |-> stage, context |-> context,
     instructions |-> path]

(***************************************************************************)
(* FreshInterpreter: the schema validator and the final assembly.          *)
(***************************************************************************)
\* for idx, r in enumerate(items): for k in keys: if k not in r:
\*     return False, f"{label}[{idx}] missing {k}"
FreshItems(label, items, keys) ==
    LET bad == {i \in 1..Len(items) : MissingKeys(keys, items[i]) # <<>>}
        first == CHOOSE i \in bad : \A j \in bad : i <= j
    IN IF bad = {} THEN Returned(TRUE, None)
       ELSE Returned(FALSE, Msg(<<label, "[", ToString(first - 1), "] missing ",
                                  Head(MissingKeys(keys, items[first]))>>))

FreshRoleKeys == <<"raw_role_id", "name", "llm_type", "llm_params",
                   "task_phases", "task_phases_excluded", "notes">>
FreshStateSections == <<"meta_information", "private_information",
                        "public_information">>

\* FreshInterpreter._validate(stage, data): (ok, err), or the TypeError of
\* `in` on a payload that is no container and of data[stage] on a list
FreshValidate(stage, data) ==
    LET missing(what) == Returned(FALSE, Msg(<<"Missing ", stage, what>>))
        section == data.items[stage]
    IN
    IF InRaises(data) THEN Raised(TypeErrorNotIterable)
    ELSE IF PyIn(stage, data) /\ ~IsDict(data) THEN Raised(TypeErrorIndex)
    ELSE
    CASE stage = "meta" ->
           IF ~PyIn(stage, data) \/ ~IsDict(section) THEN missing(" object")
           ELSE LET absent == MissingKeys(<<"name", "description">>, section)
                IN IF absent # <<>>
                   THEN Returned(FALSE, Msg(<<"meta missing ", Head(absent)>>))
                   ELSE Returned(TRUE, None)
      [] stage = "agent_roles" ->
           IF ~PyIn(stage, data) \/ ~IsList(section) THEN missing(" list")
           ELSE LET roles == FreshItems(stage, section.elems, FreshRoleKeys)
                IN IF ~roles.valid THEN roles
                   ELSE IF \/ ~PyIn("phase_number_map", data)
                           \/ ~PyIn("actionable_phase_numbers", data)
                   THEN Returned(FALSE,
                          Msg(<<"Missing phase_number_map or actionable_phase_numbers">>))
                   ELSE Returned(TRUE, None)
      [] stage = "state" ->
           IF ~PyIn(stage, data) THEN missing("")
           ELSE IF InRaises(section) THEN Raised(TypeErrorNotIterable)
           ELSE LET bad == SelectSeqOf(FreshStateSections,
                              {sec \in Range(FreshStateSections) :
                                  \/ ~PyIn(sec, section)
                                  \/ ~IsDict(section)
                                  \/ ~IsList(section.items[sec])})
                IN IF bad # <<>>
                   THEN Returned(FALSE, Msg(<<"state.", Head(bad),
                                              " missing or not list">>))
                   ELSE Returned(TRUE, None)
      [] stage = "role_prompts" ->
           IF ~PyIn(stage, data) \/ ~IsList(section) THEN missing(" list")
           ELSE FreshItems(stage, section.elems,
                           <<"raw_role_id", "phase_name", "kind", "content">>)
      [] stage = "agents" ->
           IF ~PyIn(stage, data) \/ ~IsList(section) THEN missing(" list")
           ELSE FreshItems(stage, section.elems, <<"id", "raw_role_ref">>)
      [] stage = "manager" ->
           IF ~PyIn(stage, data) \/ ~IsDict(section) THEN missing(" object")
           ELSE IF ~PyIn("type", section) \/ ~PyIn("event_handlers", section)
           THEN Returned(FALSE, Msg(<<"manager missing type or event_handlers">>))
           ELSE IF ~IsList(section.items["event_handlers"])
           THEN Returned(FALSE, Msg(<<"manager.event_handlers not list">>))
           ELSE Returned(TRUE, None)
      [] stage = "runner" ->
           IF ~PyIn(stage, data) \/ ~IsDict(section) THEN missing(" object")
           ELSE LET absent == MissingKeys(RunnerKeys, section)
                IN IF absent # <<>>
                   THEN Returned(FALSE, Msg(<<"runner missing ", Head(absent)>>))
                   ELSE Returned(TRUE, None)
      [] OTHER -> Returned(TRUE, None)

\* the parsed game specification the interpreter was constructed on
\* (self._load_parsed()): its third partial has no content
ParsedJson ==
    JDict(<< <<"prompt_partials",
               JList(<<Partial("game_description"), Partial("game_history"),
                       JDict(<< <<"name", JStr("game_information")>> >>)>>)>> >>)

\* str(v) of a JSON value that names a role
PyStr(v) ==
    CASE v.kind = "str" -> v.s
      [] v.kind = "num" -> ToString(v.n)
      [] v.kind = "null" -> "None"
      [] OTHER -> "<object>"
\* int(v): the integer, or the exception it raises
PyInt(v) ==
    CASE v.kind = "num" -> [ok |-> TRUE, n |-> v.n]
      [] v.kind = "bool" -> [ok |-> TRUE, n |-> IF v.b THEN 1 ELSE 0]
      [] v.kind = "str" /\ v.s \in {"0", "1", "2", "3"} ->
            [ok |-> TRUE, n |-> CHOOSE n \in 0..3 : ToString(n) = v.s]
      [] OTHER -> [ok |-> FALSE, n |-> 0]
\* isinstance(v, int)
IsInt(v) == v.kind \in {"num", "bool"}
CannotInfer == JStr("cannot infer")

\* [f(seq[i]) for i in range(len(seq))]
MapSeq(seq, f(_)) == [i \in 1..Len(seq) |-> f(seq[i])]
\* a set of indices in increasing order
RECURSIVE InOrder(_)
InOrder(indices) ==
    IF indices = {} THEN <<>>
    ELSE LET least == CHOOSE i \in indices : \A j \in indices : i <= j
         IN <<least>> \o InOrder(indices \ {least})

\* FreshInterpreter._finalize(): the ExperimentConfig it assembles from the
\* result map and the parsed game specification.  The stored results are
\* objects the validator accepted, or None; the entries of their lists are
\* objects.
FreshFinalize(results) ==
    LET block(stage) == results[stage]
        section(stage, default) ==
            IF Truthy(block(stage)) THEN DictGet(block(stage), stage, default)
            ELSE default
        raw_partials ==
            LET pp == DictGet(ParsedJson, "prompt_partials", JList(<<>>))
            IN IF Truthy(pp) THEN pp.elems ELSE <<>>
        is_partial(pp) == IsDict(pp) /\ PyIn("name", pp) /\ PyIn("content", pp)
        prompt_partials ==
            MapSeq(InOrder({i \in 1..Len(raw_partials) :
                              is_partial(raw_partials[i])}),
                   LAMBDA i : [name |-> raw_partials[i].items["name"],
                               content |-> raw_partials[i].items["content"]])
        meta == section("meta", JDict(<<>>))
        raw_roles == section("agent_roles", JList(<<>>)).elems
        raw_id(r) == PyStr(DictGet(r, "raw_role_id", None))
        known == {raw_id(raw_roles[i]) : i \in 1..Len(raw_roles)}
        \* a raw id met twice keeps the index of its last role
        role_id_lookup ==
            [rid \in known |->
                CHOOSE i \in 1..Len(raw_roles) :
                    /\ raw_id(raw_roles[i]) = rid
                    /\ \A j \in (i + 1)..Len(raw_roles) : raw_id(raw_roles[j]) # rid]
        raw_prompts == section("role_prompts", JList(<<>>)).elems
        prompt_of(idx) ==
            LET rid(i) == PyStr(DictGet(raw_prompts[i], "raw_role_id", None))
                kept == InOrder({i \in 1..Len(raw_prompts) :
                            /\ rid(i) \in known
                            /\ role_id_lookup[rid(i)] = idx
                            /\ Truthy(DictGet(raw_prompts[i], "content",
                                              JStr("")))})
            IN MapSeq(kept, LAMBDA i :
                        [key |-> DictGet(raw_prompts[i], "kind", None),
                         value |-> DictGet(raw_prompts[i], "content", JStr(""))])
        agent_role(idx) ==
            LET r == raw_roles[idx]
                llm_type == DictGet(r, "llm_type", None)
                llm_params == DictGet(r, "llm_params", None)
                task_phases == DictGet(r, "task_phases", None)
            IN [role_id |-> idx,
                name |-> DictGet(r, "name", CannotInfer),
                llm_type |-> IF llm_type = CannotInfer THEN None ELSE llm_type,
                llm_params |-> IF IsDict(llm_params) THEN llm_params
                               ELSE JDict(<<>>),
                prompts |-> prompt_of(idx),
                task_phases |-> IF IsList(task_phases) THEN task_phases
                                ELSE JList(<<>>),
                task_phases_excluded |-> JList(<<>>)]
        st_json == section("state", JDict(<<>>))
        field_name(f) ==
            IF Truthy(DictGet(f, "name", None)) THEN DictGet(f, "name", None)
            ELSE DictGet(f, "id", None)
        fields(sec) ==
            LET raw == DictGet(st_json, sec, JList(<<>>)).elems
            IN MapSeq(InOrder({i \in 1..Len(raw) : Truthy(field_name(raw[i]))}),
                      LAMBDA i : [name |-> field_name(raw[i]),
                                  type |-> DictGet(raw[i], "type", JStr("")),
                                  default |-> DictGet(raw[i], "default", None)])
        raw_agents == section("agents", JList(<<>>)).elems
        agents_cfg ==
            MapSeq(InOrder({i \in 1..Len(raw_agents) :
                     /\ PyStr(DictGet(raw_agents[i], "raw_role_ref", None))
                           \in known
                     /\ PyInt(DictGet(raw_agents[i], "id", None)).ok}),
                   LAMBDA i :
                     [id |-> PyInt(DictGet(raw_agents[i], "id", None)).n,
                      role_id |-> role_id_lookup[
                         PyStr(DictGet(raw_agents[i], "raw_role_ref", None))]])
        runner_json == section("runner", JDict(<<>>))
        text(k) == DictGet(runner_json, k, CannotInfer)
        int(k, default) == IF IsInt(DictGet(runner_json, k, None))
                           THEN DictGet(runner_json, k, None)
                           ELSE JNum(default)
    IN [name |-> DictGet(meta, "name", CannotInfer),
        description |-> DictGet(meta, "description", CannotInfer),
        prompt_partials |-> prompt_partials,
        agent_roles |-> [idx \in 1..Len(raw_roles) |-> agent_role(idx)],
        agents |-> agents_cfg,
        state |-> [meta_information |-> fields("meta_information"),
                   private_information |-> fields("private_information"),
                   public_information |-> fields("public_information")],
        manager |-> [type |-> DictGet(section("manager", JDict(<<>>)), "type",
                                      CannotInfer),
                     event_handlers |-> <<>>],
        runner |-> [type |-> text("type"), protocol |-> text("protocol"),
                    hostname |-> text("hostname"), path |-> text("path"),
                    port |-> int("port", 0), game_id |-> int("game_id", 0),
                    logs_dir |-> text("logs_dir"),
                    log_level |-> text("log_level"),
                    prompts_dir |-> text("prompts_dir"),
                    phase_transition_event |-> text("phase_transition_event"),
                    phase_identifier_key |-> text("phase_identifier_key"),
                    observability_provider |->
                        IF DictGet(runner_json, "observability_provider", None)
                              \in {None, CannotInfer}
                        THEN None
                        ELSE DictGet(runner_json, "observability_provider", None),
                    continuous_phases |->
                        IF IsList(DictGet(runner_json, "continuous_phases", None))
                        THEN DictGet(runner_json, "continuous_phases", None)
                        ELSE JList(<<>>),
                    min_action_delay |-> int("min_action_delay", 5),
                    max_action_delay |-> int("max_action_delay", 10)]]

\* ExperimentConfig.to_template_context(): the rendering context
to_template_context(e) ==
    [experiment_name |-> e.name, experiment_description |-> e.description,
     prompt_partials |-> e.prompt_partials, agent_roles |-> e.agent_roles,
     agents |-> e.agents, state |-> e.state, manager |-> e.manager,
     runner |-> e.runner]

(***************************************************************************)
(* InterpretInStages: the schema validator and the assembly of the         *)
(* ExperimentConfig from the six extraction stages.                        *)
(***************************************************************************)
\* InterpretInStages._validate(stage, data): (ok, err), or the TypeError of
\* `in` on a payload that is no container and of data[key] on a list
FullValidate(stage, data) ==
    LET partials(message, each) ==
            IF ~PyIn("prompt_partials", data)
            THEN Returned(FALSE, Msg(<<message>>))
            ELSE IF ~IsDict(data) THEN Raised(TypeErrorIndex)
            ELSE IF ~IsList(data.items["prompt_partials"])
            THEN Returned(FALSE, Msg(<<message>>))
            ELSE LET pp == data.items["prompt_partials"].elems
                 IN IF \E i \in 1..Len(pp) :
                          \/ ~IsDict(pp[i])
                          \/ ~PyIn("name", pp[i])
                          \/ ~PyIn("content", pp[i])
                    THEN Returned(FALSE, Msg(<<each>>))
                    ELSE Returned(TRUE, None)
        \* `fixed` is the message of an entry that lacks a key; without
        \* one the message names the first key the entry lacks
        list(key, keys, fixed) ==
            IF ~PyIn(key, data)
            THEN Returned(FALSE, Msg(<<"Missing ", key, " list">>))
            ELSE IF ~IsDict(data) THEN Raised(TypeErrorIndex)
            ELSE IF ~IsList(data.items[key])
            THEN Returned(FALSE, Msg(<<"Missing ", key, " list">>))
            ELSE LET items == data.items[key].elems
                     bad == {i \in 1..Len(items) :
                               MissingKeys(keys, items[i]) # <<>>}
                     first == CHOOSE i \in bad : \A j \in bad : i <= j
                 IN IF bad = {} THEN Returned(TRUE, None)
                    ELSE Returned(FALSE,
                           Msg(IF fixed # <<>> THEN fixed
                               ELSE <<key, " entry missing ",
                                      Head(MissingKeys(keys, items[first]))>>))
    IN
    IF stage = FINALIZE THEN Returned(TRUE, None)
    ELSE IF InRaises(data) THEN Raised(TypeErrorNotIterable)
    ELSE
    CASE stage = "meta_partials" ->
           IF ~PyIn("meta", data) \/ ~PyIn("prompt_partials", data)
           THEN Returned(FALSE, Msg(<<"Missing meta or prompt_partials">>))
           ELSE IF ~IsDict(data) THEN Raised(TypeErrorIndex)
           ELSE IF ~IsList(data.items["prompt_partials"])
           THEN Returned(FALSE, Msg(<<"prompt_partials must be list">>))
           ELSE IF ~IsDict(data.items["meta"])
           THEN Returned(FALSE, Msg(<<"meta must be object">>))
           ELSE partials("prompt_partials must be list",
                         "Each prompt_partial needs name & content")
      [] stage = "roles_phases" ->
           LET absent == MissingKeys(<<"roles", "phase_numbers",
                                       "actionable_phases", "role_task_map">>,
                                     data)
           IN IF absent # <<>>
              THEN Returned(FALSE, Msg(<<"Missing ", Head(absent)>>))
              ELSE Returned(TRUE, None)
      [] stage = "state" ->
           IF ~PyIn("state", data) THEN Returned(FALSE, Msg(<<"Missing state">>))
           ELSE IF ~IsDict(data) THEN Raised(TypeErrorIndex)
           ELSE IF InRaises(data.items["state"]) THEN Raised(TypeErrorNotIterable)
           ELSE LET section == data.items["state"]
                    bad == SelectSeqOf(FreshStateSections,
                              {sec \in Range(FreshStateSections) :
                                  \/ ~PyIn(sec, section)
                                  \/ ~IsDict(section)
                                  \/ ~IsList(section.items[sec])})
                IN IF bad # <<>>
                   THEN Returned(FALSE, Msg(<<"state.", Head(bad),
                                              " missing or not list">>))
                   ELSE Returned(TRUE, None)
      [] stage = "prompt_partials" ->
           partials("Missing prompt_partials list",
                    "Each prompt_partial requires name & content")
      [] stage = "role_prompts" ->
           list("role_prompts", <<"role_identifier", "phase", "kind", "text">>,
                <<>>)
      [] stage = "agents" ->
           list("agents", <<"id", "role_ref">>,
                <<"agent missing id or role_ref">>)

\* a merge in which every later substantive content replaces the earlier one
RECURSIVE MergeLaterOverrides(_, _)
MergeLaterOverrides(sources, merged) ==
    IF sources = <<>> THEN merged
    ELSE LET pp == Head(sources)
             n == DictGet(pp, "name", None)
             c == DictGet(pp, "content", JStr(""))
             normalized_c == IF c = CannotInfer THEN JStr("") ELSE c
             at == {i \in 1..Len(merged) : merged[i].name = n}
             i == CHOOSE j \in at : TRUE
         IN MergeLaterOverrides(
              Tail(sources),
              IF ~Truthy(n) THEN merged
              ELSE IF at = {}
              THEN Append(merged, [name |-> n, content |-> normalized_c])
              ELSE IF Truthy(normalized_c)
              THEN [merged EXCEPT ![i].content = normalized_c]
              ELSE merged)

\* the merge of the partials of `sources`, in the order they are met, into
\* `merged`, a dict kept as its entries in insertion order: a name not yet
\* there enters with its normalised content; a name that is there takes a
\* new content only when it has none and the new one is substantive
RECURSIVE merge_partials(_, _)
merge_partials(sources, merged) ==
    IF sources = <<>> THEN merged
    ELSE LET pp == Head(sources)
             n == DictGet(pp, "name", None)
             c == DictGet(pp, "content", JStr(""))
             normalized_c == IF c = CannotInfer THEN JStr("") ELSE c
             at == {i \in 1..Len(merged) : merged[i].name = n}
             i == CHOOSE j \in at : TRUE
         IN merge_partials(
              Tail(sources),
              IF ~Truthy(n) THEN merged
              ELSE IF at = {}
              THEN Append(merged, [name |-> n, content |-> normalized_c])
              ELSE IF \/ merged[i].content = None
                      \/ ~Truthy(merged[i].content) /\ Truthy(normalized_c)
              THEN [merged EXCEPT ![i].content = normalized_c]
              ELSE merged)

\* a cross-reference table that files a raw id it does not know under a
\* further role
LookupWithStale(raw_ids) ==
    [rid \in Range(raw_ids) \cup {"auctioneer"} |->
        IF rid \in Range(raw_ids)
        THEN CHOOSE i \in 1..Len(raw_ids) :
                /\ raw_ids[i] = rid
                /\ \A j \in (i + 1)..Len(raw_ids) : raw_ids[j] # rid
        ELSE Len(raw_ids) + 1]

\* role_id_lookup after the loop over the roles, whose raw ids are raw_ids
\* in list order: role_id_lookup[raw_id] = idx is assigned role by role, so
\* a raw id met twice keeps the index of its last role
role_id_lookup(raw_ids) ==
    [rid \in Range(raw_ids) |->
        CHOOSE i \in 1..Len(raw_ids) :
            /\ raw_ids[i] = rid
            /\ \A j \in (i + 1)..Len(raw_ids) : raw_ids[j] # rid]

\* InterpretInStages._finalize() raises AttributeError: self.results.get
\* gives None for a stage without result, and None has no get
FullFinalizeRaises(results) ==
    \E stage \in {"meta_partials", "roles_phases", "state", "prompt_partials",
                  "role_prompts", "agents"} : results[stage] = None

\* InterpretInStages._finalize(): the ExperimentConfig it assembles from the
\* results of the six extraction stages, objects the validator accepted; the
\* entries of their lists are objects.
FullFinalize(results) ==
    LET meta == DictGet(results["meta_partials"], "meta", JDict(<<>>))
        normal(v, default) == IF v = CannotInfer THEN default ELSE v
        elems(block, key) ==
            LET l == DictGet(results[block], key, JList(<<>>))
            IN IF Truthy(l) THEN l.elems ELSE <<>>
        raw_roles == elems("roles_phases", "roles")
        raw_ids == [i \in 1..Len(raw_roles) |->
                       PyStr(DictGet(raw_roles[i], "role_id_raw", None))]
        lookup == role_id_lookup(raw_ids)
        raw_prompts == elems("role_prompts", "role_prompts")
        prompt_of(idx) ==
            LET rid_raw(i) ==
                    PyStr(DictGet(raw_prompts[i], "role_identifier", None))
                kept == InOrder({i \in 1..Len(raw_prompts) :
                            /\ DictGet(raw_prompts[i], "text", JStr(""))
                                  # CannotInfer
                            /\ rid_raw(i) \in DOMAIN lookup
                            /\ lookup[rid_raw(i)] = idx
                            /\ DictGet(raw_prompts[i], "kind", None)
                                  \in {JStr("system"), JStr("user")}})
            IN MapSeq(kept, LAMBDA i :
                        [key |-> DictGet(raw_prompts[i], "kind", None),
                         value |-> DictGet(raw_prompts[i], "text", JStr(""))])
        agent_role(idx) ==
            LET r == raw_roles[idx]
                llm_params == DictGet(r, "llm_params", None)
                task_phases_inferred == DictGet(r, "task_phases_inferred", None)
            IN [role_id |-> idx,
                name |-> DictGet(r, "name", JStr("role_" \o ToString(idx))),
                llm_type |-> normal(DictGet(r, "llm_type", None), None),
                llm_params |-> IF IsDict(llm_params) THEN llm_params
                               ELSE JDict(<<>>),
                prompts |-> prompt_of(idx),
                task_phases |-> IF IsList(task_phases_inferred)
                                THEN task_phases_inferred ELSE JList(<<>>),
                task_phases_excluded |-> JList(<<>>)]
        st == DictGet(results["state"], "state", JDict(<<>>))
        nm(f) == IF Truthy(DictGet(f, "name", None)) THEN DictGet(f, "name", None)
                 ELSE DictGet(f, "id", None)
        build_fields(sec) ==
            LET arr == DictGet(st, sec, JList(<<>>)).elems
            IN MapSeq(InOrder({i \in 1..Len(arr) : Truthy(nm(arr[i]))}),
                      LAMBDA i :
                        [name |-> nm(arr[i]),
                         type |-> normal(DictGet(arr[i], "type", JStr("")),
                                         JStr("")),
                         default |-> normal(DictGet(arr[i], "default", None),
                                            None)])
        raw_agents == elems("agents", "agents")
        role_ref(i) == PyStr(DictGet(raw_agents[i], "role_ref", None))
        agents_cfg ==
            MapSeq(InOrder({i \in 1..Len(raw_agents) :
                     /\ role_ref(i) \in DOMAIN lookup
                     /\ PyInt(DictGet(raw_agents[i], "id", None)).ok}),
                   LAMBDA i :
                     [id |-> PyInt(DictGet(raw_agents[i], "id", None)).n,
                      role_id |-> lookup[role_ref(i)]])
    IN [name |-> normal(DictGet(meta, "name", JStr("")), JStr("")),
        description |-> normal(DictGet(meta, "description", JStr("")), JStr("")),
        prompt_partials |->
            merge_partials(elems("meta_partials", "prompt_partials")
                           \o elems("prompt_partials", "prompt_partials"), <<>>),
        agent_roles |-> [idx \in 1..Len(raw_roles) |-> agent_role(idx)],
        agents |-> agents_cfg,
        state |-> [meta_information |-> build_fields("meta_information"),
                   private_information |-> build_fields("private_information"),
                   public_information |-> build_fields("public_information")],
        manager |-> [type |-> JStr("TurnBasedPhaseManager"),
                     event_handlers |-> <<>>],
        runner |-> [type |-> JStr("GameRunner"), protocol |-> JStr("ws"),
                    hostname |-> JStr("localhost"), path |-> JStr("wss"),
                    port |-> JNum(0), game_id |-> JNum(0),
                    logs_dir |-> JStr("logs"), log_level |-> JStr("INFO"),
                    prompts_dir |-> JStr("prompts"),
                    phase_transition_event |-> JStr("phase-transition"),
                    phase_identifier_key |-> JStr("phase"),
                    observability_provider |-> None,
                    continuous_phases |-> JList(<<>>),
                    min_action_delay |-> JNum(5),
                    max_action_delay |-> JNum(10)]]

(***************************************************************************)
(* The pipeline instance.                                                  *)
(***************************************************************************)
VARIABLES
    variant,                \* which pipeline class the instance is
    state,                  \* self.state: the run-state
    current_stage_idx,      \* self.current_stage_idx: the cursor, from 0
    stage_results,          \* self.stage_results: stage -> payload or None
    stage_errors,           \* self.stage_errors: stage -> message or None
    selected_game_path,     \* parser: self.selected_game_path
    game_spec,              \* parser: the fields of self.game_spec
    yaml_data,              \* yaml: self.yaml_data, root key -> value
    last_prompt,            \* self.last_prompt
    last_llm_response,      \* self.last_llm_response
    expected_partial_names, \* parser: self.expected_partial_names
    written,                \* the content of the output file, once written
    returned,               \* what the last all_stages_successful() returned
    threads,                \* the executor threads run_stage has started
    runs,                   \* executor threads started so far
    succeeded,              \* stages with an attempt that ended in SUCCESS
                            \* since the last reset
    experiment,             \* fresh: self.experiment
    outcome                 \* the last call of the public interface: what
                            \* it was, what it returned or raised, and the
                            \* prompt it handed to the executor

vars == <<variant, state, current_stage_idx, stage_results, stage_errors,
          selected_game_path, game_spec, yaml_data, last_prompt,
          last_llm_response, expected_partial_names, written, returned, threads, runs,
          succeeded, experiment, outcome>>

ThreadIds == 1..MaxThreads
IdleThread == [pc |-> "idle", stage |-> "", response |-> "", final |-> ""]
\* the file the interpreter was constructed on, and the files select is tried on
ParsedJsonPath == JStr("output/parse_out/game.json")
ExistingSpec == "game_spec/game.txt"
MissingSpec == "game_spec/missing.txt"
Paths == {ExistingSpec, MissingSpec}
isfile(path) == path = ExistingSpec

CurrentStage == Stages(variant)[current_stage_idx + 1]
NoResults == [s \in StageSet(variant) |-> None]

\* a call that returned `value`, and one that raised `exception`; `sent` is
\* the prompt the call started an executor on, None when it started none
Outcome(call, args, value, exception, sent) ==
    [call |-> call, args |-> args, returned |-> value, raised |-> exception,
     sent |-> sent]
NoCall == Outcome("", <<>>, None, None, None)

Init ==
    /\ variant \in Variants
    /\ state = "IDLE"
    /\ current_stage_idx = 0
    /\ stage_results = NoResults
    /\ stage_errors = NoResults
    /\ selected_game_path = None
    /\ game_spec = NewGameSpec
    /\ yaml_data = <<>>
    /\ last_prompt = None
    /\ last_llm_response = None
    /\ expected_partial_names = <<>>
    /\ written = None
    /\ returned = None
    /\ threads = [t \in ThreadIds |-> IdleThread]
    /\ runs = 0
    /\ succeeded = {}
    /\ experiment = None
    /\ outcome = NoCall

\* a select_game_spec that forgets the error map
SelectKeepsErrors(path) ==
    /\ variant = "parser"
    /\ IF ~isfile(path)
       THEN UNCHANGED <<state, current_stage_idx, stage_results,
                        selected_game_path, game_spec, succeeded>>
       ELSE /\ selected_game_path' = JStr(path)
            /\ state' = "SELECTING_GAME"
            /\ current_stage_idx' = 0
            /\ stage_results' = NoResults
            /\ game_spec' = NewGameSpec
            /\ succeeded' = {}
    /\ UNCHANGED <<variant, stage_errors, yaml_data, last_prompt,
                   last_llm_response, expected_partial_names, written,
                   returned, threads, runs>>

\* a select_game_spec that resets the pipeline before it looks for the file
SelectResetsFirst(path) ==
    /\ variant = "parser"
    /\ selected_game_path' = IF isfile(path) THEN JStr(path)
                             ELSE selected_game_path
    /\ state' = IF isfile(path) THEN "SELECTING_GAME" ELSE state
    /\ current_stage_idx' = 0
    /\ stage_results' = NoResults
    /\ stage_errors' = NoResults
    /\ game_spec' = NewGameSpec
    /\ succeeded' = {}
    /\ UNCHANGED <<variant, yaml_data, last_prompt, last_llm_response,
                   expected_partial_names, written, returned, threads, runs>>

\* select_game_spec(path); a path that is no file raises FileNotFoundError
\* before anything is assigned
SelectGameSpec(path) ==
    /\ variant = "parser"
    /\ IF ~isfile(path)
       THEN UNCHANGED <<state, current_stage_idx, stage_results, stage_errors,
                        selected_game_path, game_spec, succeeded>>
       ELSE /\ selected_game_path' = JStr(path)
            /\ state' = "SELECTING_GAME"
            /\ current_stage_idx' = 0
            /\ stage_results' = NoResults
            /\ stage_errors' = NoResults
            /\ game_spec' = NewGameSpec
            /\ succeeded' = {}
    /\ UNCHANGED <<variant, yaml_data, last_prompt, last_llm_response,
                   expected_partial_names, written, returned, threads, runs>>

\* threading.Thread(target=self._run_stage_thread, args=(stage, prompt)).start()
FreeThread == CHOOSE t \in ThreadIds :
                 /\ threads[t].pc = "idle"
                 /\ \A u \in ThreadIds : threads[u].pc = "idle" => t <= u
CanStart == runs < MaxRuns /\ \E t \in ThreadIds : threads[t].pc = "idle"
StartThread(stage) ==
    /\ threads' = [threads EXCEPT ![FreeThread] =
                      [IdleThread EXCEPT !.pc = "llm", !.stage = stage]]
    /\ runs' = runs + 1

\* the context the current stage's prompt is composed with
ComposeCurrent ==
    IF variant = "parser"
    THEN _compose_context_for_stage(CurrentStage, stage_results,
                                    expected_partial_names)
    ELSE [raised |-> FALSE, context |-> <<>>, expected |-> expected_partial_names]
\* the file _render_prompt reads: opening None raises TypeError
PromptSource == IF variant = "parser" THEN selected_game_path ELSE ParsedJsonPath

\* the body of run_stage(feedback) under the lock; `feedback` is None or the
\* prompt to send instead of the stage's standard prompt.  An exception of
\* the prompt composer leaves run_stage after the run-state was set, and
\* before a thread is started.
RunStageBody(feedback) ==
    LET c == ComposeCurrent
    IN /\ state' = "WAITING_RESPONSE"
       /\ expected_partial_names' = c.expected
       /\ IF c.raised
          THEN UNCHANGED <<last_prompt, threads, runs>>
          ELSE IF feedback # None
          THEN /\ CanStart
               /\ StartThread(CurrentStage)
               /\ UNCHANGED last_prompt
          ELSE IF PromptSource = None
          THEN UNCHANGED <<last_prompt, threads, runs>>
          ELSE /\ CanStart
               /\ last_prompt' = StandardPrompt(CurrentStage, c.context,
                                                PromptSource)
               /\ StartThread(CurrentStage)
       /\ UNCHANGED <<variant, current_stage_idx, stage_results, stage_errors,
                      selected_game_path, game_spec, yaml_data,
                      last_llm_response, written, returned, succeeded>>

\* run_stage()
RunStage == RunStageBody(None)

Feedbacks == {"Use the exact role names."}
\* give_feedback(feedback), with a non-empty text (an empty one is run_stage())
GiveFeedback(feedback) == RunStageBody(JStr(feedback))

HumanFeedbacks == {None, JStr(""), JStr("The seller moves first.")}
\* retry_stage_with_feedback(human_feedback): the retry prompt is built
\* outside the lock (composing the context and rendering the standard
\* prompt on the way: an exception there leaves before run_stage is called),
\* then run_stage is called with it
RetryStageWithFeedback(human_feedback) ==
    LET c == ComposeCurrent
    IN /\ expected_partial_names' = c.expected
       /\ IF c.raised \/ PromptSource = None
          THEN UNCHANGED <<state, last_prompt, threads, runs>>
          ELSE /\ CanStart
               /\ last_prompt' = StandardPrompt(CurrentStage, c.context,
                                                PromptSource)
               /\ state' = "WAITING_RESPONSE"
               /\ StartThread(CurrentStage)
       /\ UNCHANGED <<variant, current_stage_idx, stage_results, stage_errors,
                      selected_game_path, game_spec, yaml_data,
                      last_llm_response, written, returned, succeeded>>

\* a next_stage that starts over after the last stage
NextStageWraps ==
    /\ IF current_stage_idx < Len(Stages(variant)) - 1
       THEN /\ current_stage_idx' = current_stage_idx + 1
            /\ state' = "IDLE"
       ELSE /\ current_stage_idx' = 0
            /\ state' = "SUCCESS"
    /\ UNCHANGED <<variant, stage_results, stage_errors, selected_game_path,
                   game_spec, yaml_data, last_prompt, last_llm_response,
                   expected_partial_names, written, returned, threads, runs,
                   succeeded>>

\* a next_stage that moves the cursor on whatever the stage is
NextStageOvershoots ==
    /\ current_stage_idx' = current_stage_idx + 1
    /\ state' = "IDLE"
    /\ UNCHANGED <<variant, stage_results, stage_errors, selected_game_path,
                   game_spec, yaml_data, last_prompt, last_llm_response,
                   expected_partial_names, written, returned, threads, runs,
                   succeeded>>

\* a next_stage that clears the error of the stage it leaves
NextStageForgetsError ==
    /\ IF current_stage_idx < Len(Stages(variant)) - 1
       THEN /\ current_stage_idx' = current_stage_idx + 1
            /\ state' = "IDLE"
       ELSE /\ state' = "SUCCESS"
            /\ UNCHANGED current_stage_idx
    /\ stage_errors' = [stage_errors EXCEPT ![CurrentStage] = None]
    /\ UNCHANGED <<variant, stage_results, selected_game_path,
                   game_spec, yaml_data, last_prompt, last_llm_response,
                   expected_partial_names, written, returned, threads, runs,
                   succeeded>>

\* next_stage()
NextStage ==
    /\ IF current_stage_idx < Len(Stages(variant)) - 1
       THEN /\ current_stage_idx' = current_stage_idx + 1
            /\ state' = "IDLE"
       ELSE /\ state' = "SUCCESS"
            /\ UNCHANGED current_stage_idx
    /\ UNCHANGED <<variant, stage_results, stage_errors, selected_game_path,
                   game_spec, yaml_data, last_prompt, last_llm_response,
                   expected_partial_names, written, returned, threads, runs, succeeded>>

\* all_stages_successful(): all(self.stage_results[s] for s in self.stages)
all_stages_successful ==
    \A i \in 1..Len(Stages(variant)) : Truthy(stage_results[Stages(variant)[i]])

\* a call of all_stages_successful()
AllStagesSuccessful ==
    /\ returned' = JBool(all_stages_successful)
    /\ UNCHANGED <<variant, state, current_stage_idx, stage_results,
                   stage_errors, selected_game_path, game_spec, yaml_data,
                   last_prompt, last_llm_response, expected_partial_names,
                   written, threads, runs, succeeded>>

\* GameSpec.to_dict()
to_dict(gs) ==
    [meta |-> gs.meta, roles |-> gs.roles, phases |-> gs.phases,
     payoff_consequences |-> gs.payoff_consequences, state |-> gs.state,
     prompt_partials |-> gs.partial_prompts, settings |-> gs.settings,
     ui |-> gs.ui]

OutputPaths == {None, JStr("out/spec.json")}
\* write_results_to_file(output_path) raises when not all_stages_successful(),
\* and when it has to derive the file name from a path that is None
WriteRaises(output_path) ==
    \/ ~all_stages_successful
    \/ output_path = None /\ PromptSource = None
WriteResultsToFile(output_path) ==
    /\ IF WriteRaises(output_path)
       THEN UNCHANGED <<state, written>>
       ELSE /\ written' = IF variant = "parser" THEN to_dict(game_spec)
                          ELSE yaml_data
            /\ state' = "WRITING_FILE"
    /\ UNCHANGED <<variant, current_stage_idx, stage_results, stage_errors,
                   selected_game_path, game_spec, yaml_data, last_prompt,
                   last_llm_response, expected_partial_names, returned,
                   threads, runs, succeeded>>

(***************************************************************************)
(* The executor: _run_stage_thread(stage, prompt), started by run_stage.   *)
(* It holds no lock; its steps are the LLM call, the processing of the     *)
(* response (the writes to the stage's slots) and the final write of the   *)
(* run-state.                                                              *)
(***************************************************************************)
TransportError == Msg(<<"Connection error.">>)

\* response = loop.run_until_complete(self._run_llm_async(prompt)) returns;
\* self.state = PROCESSING_RESPONSE
LLMReturn(t, response) ==
    /\ threads[t].pc = "llm"
    /\ response \in Responses(variant, threads[t].stage)
    /\ last_llm_response' = JStr(response)
    /\ state' = IF variant \in {"fresh", "full"} THEN "PROCESSING"
                 ELSE "PROCESSING_RESPONSE"
    /\ threads' = [threads EXCEPT ![t].pc = "process", ![t].response = response]
    /\ UNCHANGED <<variant, current_stage_idx, stage_results, stage_errors,
                   selected_game_path, game_spec, yaml_data, last_prompt,
                   expected_partial_names, written, returned, runs, succeeded>>

\* an except clause that files the error under the cursor's stage
LLMRaiseUnderCursor(t) ==
    /\ threads[t].pc = "llm"
    /\ stage_errors' = [stage_errors EXCEPT ![CurrentStage] = TransportError]
    /\ threads' = [threads EXCEPT ![t].pc = "set_state", ![t].final = "ERROR"]
    /\ UNCHANGED <<variant, state, current_stage_idx, stage_results,
                   selected_game_path, game_spec, yaml_data, last_prompt,
                   last_llm_response, expected_partial_names, written,
                   returned, runs, succeeded>>

\* the LLM call raises: except Exception as e: stage_errors[stage] = str(e)
LLMRaise(t) ==
    /\ threads[t].pc = "llm"
    /\ stage_errors' = [stage_errors EXCEPT ![threads[t].stage] = TransportError]
    /\ threads' = [threads EXCEPT ![t].pc = "set_state", ![t].final = "ERROR"]
    /\ UNCHANGED <<variant, state, current_stage_idx, stage_results,
                   selected_game_path, game_spec, yaml_data, last_prompt,
                   last_llm_response, expected_partial_names, written, returned, runs,
                   succeeded>>

\* an executor that ends every attempt in SUCCESS
AttemptAlwaysSucceeds(results, errors, gs, yd, final, exc) ==
    [results |-> results, errors |-> errors, game_spec |-> gs, yaml_data |-> yd,
     final |-> "SUCCESS", exc |-> exc]

Attempt(results, errors, gs, yd, final, exc) ==
    [results |-> results, errors |-> errors, game_spec |-> gs, yaml_data |-> yd,
     final |-> final, exc |-> exc]

\* StagedGameSpecParser._process_stage_response(stage, response), together
\* with the except clause of _run_stage_thread that catches what it raises:
\* the slots it leaves, the run-state it sets last, the exception it met
ParserProcess(stage, response, results, errors, gs, yd, expected) ==
    LET parsed == JsonLoads(stage, response)
        data == parsed.value
        v == _validate_stage(stage, data, expected)
        u == _update_game_spec(stage, data, gs)
        error(msg, exc) ==
            Attempt(results, [errors EXCEPT ![stage] = msg], gs, yd, "ERROR", exc)
    IN IF ~parsed.ok
       THEN error(Msg(<<"Invalid JSON: ", JsonDecodeError, "\nRaw response:\n",
                        response>>),
                  Msg(<<JsonDecodeError>>))
       ELSE IF v.raised THEN error(v.error, v.error)
       ELSE IF ~v.valid THEN error(v.error, None)
       ELSE IF u.raised
       THEN Attempt([results EXCEPT ![stage] = data],
                    [errors EXCEPT ![stage] = u.error],
                    u.game_spec, yd, "ERROR", u.error)
       ELSE Attempt([results EXCEPT ![stage] = data],
                    [errors EXCEPT ![stage] = None],
                    u.game_spec, yd, "SUCCESS", None)

\* StagedYamlInterpreter._process_stage_response(stage, response)
YamlProcess(stage, response, results, errors, gs, yd, expected) ==
    LET root_key == stage
        parsed == JsonLoads(stage, response)
        value == IF IsDict(parsed.value) /\ root_key \in DOMAIN parsed.value.items
                 THEN parsed.value.items[root_key]
                 ELSE parsed.value
    IN IF ~parsed.ok
       THEN Attempt(results,
                    [errors EXCEPT ![stage] =
                        Msg(<<"Invalid JSON response: ", JsonDecodeError>>)],
                    gs, yd, "ERROR", Msg(<<JsonDecodeError>>))
       ELSE Attempt([results EXCEPT ![stage] = value],
                    [errors EXCEPT ![stage] = None],
                    gs,
                    [k \in DOMAIN yd \cup {root_key} |->
                        IF k = root_key THEN value ELSE yd[k]],
                    "SUCCESS", None)

\* response[:n]
Prefix(response, n) ==
    SubSeq(response, 1, IF Len(response) < n THEN Len(response) ELSE n)
\* the characters of the raw response FreshInterpreter quotes in an error
FreshRawLimit == 300

\* FreshInterpreter._process_response(stage, response), together with the
\* except clause of _stage_thread: the payload is validated and stored whole
FreshProcess(stage, response, results, errors, gs, yd, expected) ==
    LET parsed == JsonLoads(stage, response)
        data == parsed.value
        v == FreshValidate(stage, data)
        error(msg, exc) ==
            Attempt(results, [errors EXCEPT ![stage] = msg], gs, yd, "ERROR", exc)
    IN IF ~parsed.ok
       THEN error(Msg(<<"Invalid JSON: ", JsonDecodeError, ". Raw: ",
                        Prefix(response, FreshRawLimit)>>),
                  Msg(<<JsonDecodeError>>))
       ELSE IF v.raised THEN error(v.error, v.error)
       ELSE IF ~v.valid THEN error(v.error, None)
       ELSE Attempt([results EXCEPT ![stage] = data],
                    [errors EXCEPT ![stage] = None], gs, yd, "SUCCESS", None)

\* the characters of the raw response InterpretInStages quotes in an error
FullRawLimit == 500

\* InterpretInStages._process_response(stage, response), together with the
\* except clause of _stage_thread
FullProcess(stage, response, results, errors, gs, yd, expected) ==
    LET parsed == JsonLoads(stage, response)
        data == parsed.value
        v == FullValidate(stage, data)
        error(msg, exc) ==
            Attempt(results, [errors EXCEPT ![stage] = msg], gs, yd, "ERROR", exc)
    IN IF ~parsed.ok
       THEN error(Msg(<<"Invalid JSON: ", JsonDecodeError, ". Raw: ",
                        Prefix(response, FullRawLimit)>>),
                  Msg(<<JsonDecodeError>>))
       ELSE IF v.raised THEN error(v.error, v.error)
       ELSE IF ~v.valid THEN error(v.error, None)
       ELSE Attempt([results EXCEPT ![stage] = data],
                    [errors EXCEPT ![stage] = None], gs, yd, "SUCCESS", None)

_process_stage_response(stage, response, results, errors, gs, yd, expected) ==
    CASE variant = "parser" ->
           ParserProcess(stage, response, results, errors, gs, yd, expected)
      [] variant = "yaml" ->
           YamlProcess(stage, response, results, errors, gs, yd, expected)
      [] variant = "fresh" ->
           FreshProcess(stage, response, results, errors, gs, yd, expected)
      [] variant = "full" ->
           FullProcess(stage, response, results, errors, gs, yd, expected)

\* self._process_stage_response(stage, response), up to its write of the
\* run-state
ProcessResponse(t) ==
    /\ threads[t].pc = "process"
    /\ \E a \in {_process_stage_response(threads[t].stage, threads[t].response,
                                          stage_results, stage_errors, game_spec,
                                          yaml_data, expected_partial_names)} :
          /\ stage_results' = a.results
          /\ stage_errors' = a.errors
          /\ game_spec' = a.game_spec
          /\ yaml_data' = a.yaml_data
          /\ threads' = [threads EXCEPT ![t].pc = "set_state",
                                        ![t].response = "",
                                        ![t].final = a.final]
          /\ succeeded' = IF a.final = "SUCCESS"
                          THEN succeeded \cup {threads[t].stage}
                          ELSE succeeded
    /\ UNCHANGED <<variant, state, current_stage_idx, selected_game_path,
                   last_prompt, last_llm_response, expected_partial_names,
                   written, returned, runs>>

\* self.state = SUCCESS or self.state = ERROR, the executor's last write
SetRunState(t) ==
    /\ threads[t].pc = "set_state"
    /\ state' = threads[t].final
    /\ threads' = [threads EXCEPT ![t] = IdleThread]
    /\ UNCHANGED <<variant, current_stage_idx, stage_results, stage_errors,
                   selected_game_path, game_spec, yaml_data, last_prompt,
                   last_llm_response, expected_partial_names, written, returned, runs,
                   succeeded>>

Executor(t) ==
    \/ \E response \in AllResponses : LLMReturn(t, response)
    \/ LLMRaise(t)
    \/ ProcessResponse(t)
    \/ SetRunState(t)

\* a step seen by its effect on the pipeline alone: what the call returned
\* is not recorded
Unobserved == UNCHANGED <<experiment, outcome>>

Next ==
    \/ \E path \in Paths : SelectGameSpec(path) /\ Unobserved
    \/ RunStage /\ Unobserved
    \/ \E feedback \in Feedbacks : GiveFeedback(feedback) /\ Unobserved
    \/ \E human_feedback \in HumanFeedbacks :
          RetryStageWithFeedback(human_feedback) /\ Unobserved
    \/ NextStage /\ Unobserved
    \/ \E output_path \in OutputPaths :
          WriteResultsToFile(output_path) /\ Unobserved
    \/ \E t \in ThreadIds, response \in AllResponses :
          LLMReturn(t, response) /\ Unobserved
    \/ \E t \in ThreadIds : LLMRaise(t) /\ Unobserved
    \/ \E t \in ThreadIds : ProcessResponse(t) /\ Unobserved
    \/ \E t \in ThreadIds : SetRunState(t) /\ Unobserved

Spec == Init /\ [][Next]_vars


(***************************************************************************)
(* FreshInterpreter's public interface.  Its executor is the one above;    *)
(* _process_response writes the run-state as its last statement.           *)
(***************************************************************************)
\* FreshInterpreter._render_prompt(stage) of an extraction stage
FreshPrompt(stage) == StandardPrompt(stage, <<>>, ParsedJsonPath)

\* FreshInterpreter.run_stage(feedback): at FINALIZE the experiment is
\* assembled under the lock and no executor is started
FreshRunStage(feedback) ==
    /\ variant = "fresh"
    /\ IF CurrentStage = FINALIZE
       THEN /\ experiment' = FreshFinalize(stage_results)
            /\ stage_results' =
                  [stage_results EXCEPT ![FINALIZE] =
                      to_template_context(FreshFinalize(stage_results))]
            /\ state' = "SUCCESS"
            /\ UNCHANGED <<last_prompt, threads, runs>>
       ELSE /\ state' = "WAITING"
            /\ CanStart
            /\ StartThread(CurrentStage)
            /\ last_prompt' = IF IsSet(feedback) THEN last_prompt
                              ELSE FreshPrompt(CurrentStage)
            /\ UNCHANGED <<stage_results, experiment>>
    /\ UNCHANGED <<variant, current_stage_idx, stage_errors, selected_game_path,
                   game_spec, yaml_data, last_llm_response,
                   expected_partial_names, written, returned, succeeded>>

\* the prompt retry_with_feedback(feedback) builds
FreshRetryPrompt(feedback) ==
    [kind |-> "retry",
     sections |-> <<Section("Previous prompt",
                            IF IsSet(last_prompt) THEN last_prompt ELSE JStr("")),
                    Section("Previous response",
                            IF IsSet(last_llm_response) THEN last_llm_response
                            ELSE JStr("")),
                    Section("Feedback", feedback),
                    Section("", JStr("Re-answer strictly as valid JSON."))>>]

\* FreshInterpreter.retry_with_feedback(feedback)
FreshRetryWithFeedback(feedback) == FreshRunStage(FreshRetryPrompt(feedback))

\* FreshInterpreter.next_stage(): takes no lock, and leaves the run-state
\* alone once the cursor is on the last stage
FreshNextStage ==
    /\ variant = "fresh"
    /\ IF current_stage_idx < Len(FreshStages) - 1
       THEN /\ current_stage_idx' = current_stage_idx + 1
            /\ state' = "IDLE"
       ELSE UNCHANGED <<current_stage_idx, state>>
    /\ UNCHANGED <<variant, stage_results, stage_errors, selected_game_path,
                   game_spec, yaml_data, last_prompt, last_llm_response,
                   expected_partial_names, written, returned, threads, runs,
                   succeeded, experiment>>

\* FreshInterpreter.write_yaml(): renders self.experiment into the output
\* file, or raises RuntimeError when nothing was assembled
FreshWriteYaml ==
    /\ variant = "fresh"
    /\ written' = IF experiment = None THEN written
                  ELSE to_template_context(experiment)
    /\ UNCHANGED <<variant, state, current_stage_idx, stage_results,
                   stage_errors, selected_game_path, game_spec, yaml_data,
                   last_prompt, last_llm_response, expected_partial_names,
                   returned, threads, runs, succeeded, experiment>>

(***************************************************************************)
(* InterpretInStages' public interface, on the executor above.             *)
(***************************************************************************)
\* InterpretInStages._render_stage_prompt(stage) of an extraction stage:
\* the prompt of prompt_partials quotes the results stored so far
FullPrompt(stage) ==
    LET or_empty(v) == IF Truthy(v) THEN v ELSE JDict(<<>>)
    IN StandardPrompt(
         stage,
         IF stage = "prompt_partials"
         THEN <<Section("extracted_roles_phases",
                        or_empty(stage_results["roles_phases"])),
                Section("extracted_state", or_empty(stage_results["state"])),
                Section("existing_partials",
                        DictGet(or_empty(stage_results["meta_partials"]),
                                "prompt_partials", JList(<<>>)))>>
         ELSE <<>>,
         ParsedJsonPath)

\* an assembly that takes the results out of the result map as it reads them
FullRunConsumesResults(feedback) ==
    /\ variant = "full"
    /\ CurrentStage = FINALIZE
    /\ ~FullFinalizeRaises(stage_results)
    /\ experiment' = FullFinalize(stage_results)
    /\ stage_results' =
          [stage \in StageSet(variant) |->
              IF stage = FINALIZE
              THEN to_template_context(FullFinalize(stage_results))
              ELSE None]
    /\ state' = "SUCCESS"
    /\ UNCHANGED <<variant, current_stage_idx, stage_errors, selected_game_path,
                   game_spec, yaml_data, last_prompt, last_llm_response,
                   expected_partial_names, written, returned, threads, runs,
                   succeeded>>

\* InterpretInStages.run_current_stage(feedback): at FINALIZE the
\* experiment is assembled under the lock, and an exception of _finalize
\* leaves the call before anything was written
FullRunCurrentStage(feedback) ==
    /\ variant = "full"
    /\ IF CurrentStage = FINALIZE
       THEN IF FullFinalizeRaises(stage_results)
            THEN UNCHANGED <<experiment, stage_results, state, last_prompt,
                             threads, runs>>
            ELSE /\ experiment' = FullFinalize(stage_results)
                 /\ stage_results' =
                       [stage_results EXCEPT ![FINALIZE] =
                           to_template_context(FullFinalize(stage_results))]
                 /\ state' = "SUCCESS"
                 /\ UNCHANGED <<last_prompt, threads, runs>>
       ELSE /\ state' = "WAITING"
            /\ CanStart
            /\ StartThread(CurrentStage)
            /\ last_prompt' = IF IsSet(feedback) THEN last_prompt
                              ELSE FullPrompt(CurrentStage)
            /\ UNCHANGED <<stage_results, experiment>>
    /\ UNCHANGED <<variant, current_stage_idx, stage_errors, selected_game_path,
                   game_spec, yaml_data, last_llm_response,
                   expected_partial_names, written, returned, succeeded>>

\* InterpretInStages.next_stage(): under the lock; the run-state is left
\* alone once the cursor is on the last stage
FullNextStage ==
    /\ variant = "full"
    /\ IF current_stage_idx < Len(FullStages) - 1
       THEN /\ current_stage_idx' = current_stage_idx + 1
            /\ state' = "IDLE"
       ELSE UNCHANGED <<current_stage_idx, state>>
    /\ UNCHANGED <<variant, stage_results, stage_errors, selected_game_path,
                   game_spec, yaml_data, last_prompt, last_llm_response,
                   expected_partial_names, written, returned, threads, runs,
                   succeeded, experiment>>

\* InterpretInStages.render_yaml(): renders self.experiment into the output
\* file, or raises RuntimeError when nothing was assembled
FullRenderYaml ==
    /\ variant = "full"
    /\ written' = IF experiment = None THEN written
                  ELSE to_template_context(experiment)
    /\ UNCHANGED <<variant, state, current_stage_idx, stage_results,
                   stage_errors, selected_game_path, game_spec, yaml_data,
                   last_prompt, last_llm_response, expected_partial_names,
                   returned, threads, runs, succeeded, experiment>>

(***************************************************************************)
(* The public interface as a driver sees it: every call with what it       *)
(* returned or raised and the prompt it dispatched.  The driver waits for  *)
(* the executor to end before its next call.                               *)
(***************************************************************************)
Quiet == \A t \in ThreadIds : threads[t].pc = "idle"
Observed(o) == outcome' = o /\ UNCHANGED experiment
FileNotFoundError == JStr("FileNotFoundError")
TypeError == JStr("TypeError")
RuntimeError == JStr("RuntimeError")
Exception == JStr("Exception")

ApiSelectGameSpec(path) ==
    /\ Quiet
    /\ SelectGameSpec(path)
    /\ Observed(Outcome("select_game_spec", <<path>>, None,
                        IF isfile(path) THEN None ELSE FileNotFoundError, None))

\* what run_stage(feedback) hands back: the stage's name, or the exception
\* of the prompt composer or of opening the instructions
RunStageOutcome(call, args, feedback) ==
    IF ComposeCurrent.raised \/ (~IsSet(feedback) /\ PromptSource = None)
    THEN Outcome(call, args, None, TypeError, None)
    ELSE Outcome(call, args, JStr(CurrentStage), None,
                 IF IsSet(feedback) THEN feedback
                 ELSE StandardPrompt(CurrentStage, ComposeCurrent.context,
                                     PromptSource))

ApiRunStage ==
    /\ Quiet
    /\ variant \in Variants
    /\ RunStage
    /\ Observed(RunStageOutcome("run_stage", <<>>, None))

ApiGiveFeedback(feedback) ==
    /\ Quiet
    /\ variant \in Variants
    /\ GiveFeedback(feedback)
    /\ Observed(RunStageOutcome("give_feedback", <<feedback>>, JStr(feedback)))

\* a retry prompt that has an error section whether or not an error is
\* recorded
RetryAlwaysQuotesError(human_feedback) ==
    [kind |-> "retry",
     sections |->
       <<Section("", Msg(<<"You are parsing stage: ", CurrentStage, ".">>))>>
       \o (IF IsSet(last_llm_response)
           THEN <<Section("PREVIOUS LLM RESPONSE", last_llm_response)>>
           ELSE <<>>)
       \o <<Section("ERROR MESSAGE", stage_errors[CurrentStage])>>
       \o (IF IsSet(human_feedback)
           THEN <<Section("HUMAN FEEDBACK", human_feedback)>>
           ELSE <<>>)
       \o <<Section("STANDARD PROMPT",
                    StandardPrompt(CurrentStage, ComposeCurrent.context,
                                   PromptSource))>>]

\* _create_retry_with_feedback_prompt(human_feedback): the sections it
\* joins, in the order it appends them
_create_retry_with_feedback_prompt(human_feedback) ==
    LET stage == CurrentStage
        context == ComposeCurrent.context
        base_prompt == StandardPrompt(stage, context, PromptSource)
        previous_response == last_llm_response
        error_message == stage_errors[stage]
    IN [kind |-> "retry",
        sections |->
          (IF variant = "parser"
           THEN <<Section("", Msg(<<"You are parsing stage: ", stage, ".">>)),
                  Section("", context)>>
           ELSE <<Section("", Msg(<<"You are interpreting stage: ", stage, ".">>))>>)
          \o (IF IsSet(previous_response)
              THEN <<Section("PREVIOUS LLM RESPONSE", previous_response)>>
              ELSE <<>>)
          \o (IF IsSet(error_message)
              THEN <<Section("ERROR MESSAGE", error_message)>>
              ELSE <<>>)
          \o (IF IsSet(human_feedback)
              THEN <<Section("HUMAN FEEDBACK", human_feedback)>>
              ELSE <<>>)
          \o <<Section("STANDARD PROMPT", base_prompt)>>]

ApiRetryStageWithFeedback(human_feedback) ==
    /\ Quiet
    /\ variant \in Variants
    /\ RetryStageWithFeedback(human_feedback)
    /\ Observed(
         IF ComposeCurrent.raised \/ PromptSource = None
         THEN Outcome("retry_stage_with_feedback", <<human_feedback>>, None,
                      TypeError, None)
         ELSE Outcome("retry_stage_with_feedback", <<human_feedback>>, None,
                      None, _create_retry_with_feedback_prompt(human_feedback)))

ApiNextStage ==
    /\ Quiet
    /\ variant \in Variants
    /\ NextStage
    /\ Observed(Outcome("next_stage", <<>>,
                        IF current_stage_idx < Len(Stages(variant)) - 1
                        THEN JStr(Stages(variant)[current_stage_idx + 2])
                        ELSE None,
                        None, None))

ApiWriteResultsToFile(output_path) ==
    /\ Quiet
    /\ variant \in Variants
    /\ WriteResultsToFile(output_path)
    /\ Observed(IF ~all_stages_successful
                THEN Outcome("write_results_to_file", <<output_path>>, None,
                             Exception, None)
                ELSE IF output_path = None /\ PromptSource = None
                THEN Outcome("write_results_to_file", <<output_path>>, None,
                             TypeError, None)
                ELSE Outcome("write_results_to_file", <<output_path>>,
                             IF output_path = None
                             THEN JStr("output/<selected game>.json")
                             ELSE output_path,
                             None, None))

ApiFreshRunStage ==
    /\ Quiet
    /\ FreshRunStage(None)
    /\ outcome' = Outcome("run_stage", <<>>, None, None,
                          IF CurrentStage = FINALIZE THEN None
                          ELSE FreshPrompt(CurrentStage))

ApiFreshRetryWithFeedback(feedback) ==
    /\ Quiet
    /\ FreshRetryWithFeedback(feedback)
    /\ outcome' = Outcome("retry_with_feedback", <<feedback>>, None, None,
                          IF CurrentStage = FINALIZE THEN None
                          ELSE FreshRetryPrompt(feedback))

ApiFreshNextStage ==
    /\ Quiet
    /\ FreshNextStage
    /\ outcome' = Outcome("next_stage", <<>>,
                          IF current_stage_idx < Len(FreshStages) - 1
                          THEN JStr(FreshStages[current_stage_idx + 2])
                          ELSE None,
                          None, None)

ApiFreshWriteYaml ==
    /\ Quiet
    /\ FreshWriteYaml
    /\ outcome' = IF experiment = None
                  THEN Outcome("write_yaml", <<>>, None, RuntimeError, None)
                  ELSE Outcome("write_yaml", <<>>,
                               JStr("output/experiment_yaml/game_fresh.yaml"),
                               None, None)

AttributeError == JStr("AttributeError")

ApiFullRunCurrentStage(feedback) ==
    /\ Quiet
    /\ FullRunCurrentStage(feedback)
    /\ outcome' =
          Outcome("run_current_stage", <<feedback>>, None,
                  IF CurrentStage = FINALIZE /\ FullFinalizeRaises(stage_results)
                  THEN AttributeError ELSE None,
                  IF CurrentStage = FINALIZE THEN None
                  ELSE IF IsSet(feedback) THEN feedback
                  ELSE FullPrompt(CurrentStage))

ApiFullNextStage ==
    /\ Quiet
    /\ FullNextStage
    /\ outcome' = Outcome("next_stage", <<>>,
                          IF current_stage_idx < Len(FullStages) - 1
                          THEN JStr(FullStages[current_stage_idx + 2])
                          ELSE None,
                          None, None)

ApiFullRenderYaml ==
    /\ Quiet
    /\ FullRenderYaml
    /\ outcome' = IF experiment = None
                  THEN Outcome("render_yaml", <<>>, None, RuntimeError, None)
                  ELSE Outcome("render_yaml", <<>>,
                               JStr("output/experiment_yaml/game_final.yaml"),
                               None, None)

\* the entry point `call` of pipeline v makes its writes to the cursor, the
\* run-state and the result and error maps inside `with self.lock`
HoldsLock(v, call) ==
    CASE call \in {"run_stage", "run_current_stage", "give_feedback",
                   "retry_stage_with_feedback", "retry_with_feedback",
                   "select_game_spec"} -> TRUE
      [] call = "next_stage" -> v # "fresh"
      [] OTHER -> FALSE

ApiInit ==
    /\ variant \in Pipelines
    /\ state = "IDLE"
    /\ current_stage_idx = 0
    /\ stage_results = NoResults
    /\ stage_errors = NoResults
    /\ selected_game_path = None
    /\ game_spec = NewGameSpec
    /\ yaml_data = <<>>
    /\ last_prompt = None
    /\ last_llm_response = None
    /\ expected_partial_names = <<>>
    /\ written = None
    /\ returned = None
    /\ threads = [t \in ThreadIds |-> IdleThread]
    /\ runs = 0
    /\ succeeded = {}
    /\ experiment = None
    /\ outcome = NoCall

ApiNext ==
    \/ \E path \in Paths : ApiSelectGameSpec(path)
    \/ ApiRunStage
    \/ \E feedback \in Feedbacks : ApiGiveFeedback(feedback)
    \/ \E human_feedback \in HumanFeedbacks :
          ApiRetryStageWithFeedback(human_feedback)
    \/ ApiNextStage
    \/ \E output_path \in OutputPaths : ApiWriteResultsToFile(output_path)
    \/ ApiFreshRunStage
    \/ \E feedback \in HumanFeedbacks \ {None} : ApiFreshRetryWithFeedback(feedback)
    \/ ApiFreshNextStage
    \/ ApiFreshWriteYaml
    \/ \E t \in ThreadIds, response \in AllResponses :
          LLMReturn(t, response) /\ Unobserved
    \/ \E t \in ThreadIds : LLMRaise(t) /\ Unobserved
    \/ \E t \in ThreadIds : ProcessResponse(t) /\ Unobserved
    \/ \E t \in ThreadIds : SetRunState(t) /\ Unobserved

ApiSpec == ApiInit /\ [][ApiNext]_vars

(***************************************************************************)
(* The assembly on its own.  Under AsmSpec a FreshInterpreter or an        *)
(* InterpretInStages stands on FINALIZE with results of every extraction   *)
(* stage that its validator accepted.  The results are drawn: the roles    *)
(* with raw ids that may repeat, role prompts and agents that refer to     *)
(* roles in any order and to a role that is not there, fields that hold    *)
(* the sentinel, and partials of the same name with and without content.   *)
(***************************************************************************)
\* roles in a drawn roles answer; role prompts and agents in a drawn answer;
\* partials a stage contributes
MaxRoles == 3
MaxRefs == 2
MaxPartials == 2

Assemblers == {"fresh", "full"}
RawIds == {"buyer", "seller"}
Refs == RawIds \cup {"auctioneer"}
SentinelFields == {"name", "description", "role_name", "llm_type",
                   "llm_params", "task_phases", "partial_content",
                   "field_type", "field_default", "manager_type", "runner"}
PartialChoices == {"game_description", "game_history"}
                     \X {"", "cannot infer", "A market.", "A double auction."}
SeqsUpTo(S, n) == UNION {[1..k -> S] : k \in 0..n}

DefaultDraw ==
    [roles |-> <<"buyer", "seller">>, prompts |-> <<"seller", "buyer">>,
     agents |-> <<"seller">>, sentinel |-> {},
     meta_partials |-> << <<"game_description", "A market.">> >>,
     gen_partials |-> <<>>]
Draws ==
    {[DefaultDraw EXCEPT !.roles = roles, !.prompts = prompts, !.agents = agents] :
        roles \in SeqsUpTo(RawIds, MaxRoles),
        prompts \in SeqsUpTo(Refs, MaxRefs), agents \in SeqsUpTo(Refs, MaxRefs)}
    \cup {[DefaultDraw EXCEPT !.sentinel = sentinel] :
            sentinel \in SUBSET SentinelFields}
    \cup {[DefaultDraw EXCEPT !.meta_partials = meta_partials,
                              !.gen_partials = gen_partials] :
            meta_partials \in SeqsUpTo(PartialChoices, MaxPartials),
            gen_partials \in SeqsUpTo(PartialChoices, MaxPartials)}

\* the text of the role prompt that refers to `ref`
PromptText(ref) == "You are the " \o ref \o "."
\* the results a pipeline of variant v holds for a draw
DrawnResults(v, draw) ==
    LET S(field, value) == IF field \in draw.sentinel THEN CannotInfer ELSE value
        meta == JDict(<< <<"name", S("name", JStr("Market"))>>,
                         <<"description",
                           S("description", JStr("A double auction"))>> >>)
        role(raw, id_key, phases_key) ==
            JDict(<< <<id_key, JStr(raw)>>,
                     <<"name", S("role_name", JStr(raw))>>,
                     <<"llm_type", S("llm_type", JStr("ChatOpenAI"))>>,
                     <<"llm_params",
                       S("llm_params",
                         JDict(<< <<"model", JStr("gpt-4o")>> >>))>>,
                     <<phases_key, S("task_phases", JList(<<JNum(1)>>))>>,
                     <<"task_phases_excluded", JList(<<JNum(2)>>)>>,
                     <<"notes", JStr("")>> >>)
        field == JDict(<< <<"name", JStr("round")>>,
                          <<"type", S("field_type", JStr("int"))>>,
                          <<"default", S("field_default", JNum(0))>> >>)
        state_block ==
            JDict(<< <<"state",
                       JDict(<< <<"meta_information", JList(<<field>>)>>,
                                <<"private_information", JList(<<>>)>>,
                                <<"public_information", JList(<<>>)>> >>)>> >>)
        partial(p) == FullPartial(p[1], IF "partial_content" \in draw.sentinel
                                        THEN "cannot infer" ELSE p[2])
        runner(key) ==
            CASE key \in {"port", "game_id"} -> JNum(8000)
              [] key \in {"min_action_delay", "max_action_delay"} -> JNum(7)
              [] key = "continuous_phases" -> JList(<<>>)
              [] key = "observability_provider" -> JStr("langsmith")
              [] OTHER -> S("runner", JStr("example"))
    IN IF v = "fresh"
       THEN [stage \in StageSet(v) |->
              CASE stage = "meta" -> Wrapped(stage, meta)
                [] stage = "agent_roles" ->
                     JDict(<< <<stage,
                                JList([i \in 1..Len(draw.roles) |->
                                         role(draw.roles[i], "raw_role_id",
                                              "task_phases")])>>,
                              <<"phase_number_map", JDict(<<>>)>>,
                              <<"actionable_phase_numbers", JList(<<>>)>> >>)
                [] stage = "state" -> state_block
                [] stage = "role_prompts" ->
                     Wrapped(stage,
                       JList([i \in 1..Len(draw.prompts) |->
                                FreshRolePrompt(draw.prompts[i], "system",
                                                PromptText(draw.prompts[i]))]))
                [] stage = "agents" ->
                     Wrapped(stage,
                       JList([i \in 1..Len(draw.agents) |->
                                FreshAgent(JNum(i), draw.agents[i])]))
                [] stage = "manager" ->
                     Wrapped(stage,
                       JDict(<< <<"type", S("manager_type",
                                            JStr("TurnBasedPhaseManager"))>>,
                                <<"event_handlers", JList(<<>>)>> >>))
                [] stage = "runner" ->
                     Wrapped(stage,
                       JDict([i \in 1..Len(RunnerKeys) |->
                                <<RunnerKeys[i], runner(RunnerKeys[i])>>]))
                [] OTHER -> None]
       ELSE [stage \in StageSet(v) |->
              CASE stage = "meta_partials" ->
                     FullMeta(meta, [i \in 1..Len(draw.meta_partials) |->
                                       partial(draw.meta_partials[i])])
                [] stage = "roles_phases" ->
                     FullRoles([i \in 1..Len(draw.roles) |->
                                  role(draw.roles[i], "role_id_raw",
                                       "task_phases_inferred")])
                [] stage = "state" -> state_block
                [] stage = "prompt_partials" ->
                     JDict(<< <<"prompt_partials",
                                JList([i \in 1..Len(draw.gen_partials) |->
                                         partial(draw.gen_partials[i])])>> >>)
                [] stage = "role_prompts" ->
                     JDict(<< <<"role_prompts",
                                JList([i \in 1..Len(draw.prompts) |->
                                   FullRolePrompt(draw.prompts[i], "system",
                                                  PromptText(draw.prompts[i]))])>> >>)
                [] stage = "agents" ->
                     JDict(<< <<"agents",
                                JList([i \in 1..Len(draw.agents) |->
                                         FullAgent(JNum(i), draw.agents[i])])>> >>)
                [] OTHER -> None]

AsmInit ==
    \E v \in Assemblers, draw \in Draws :
       /\ variant = v
       /\ state = "IDLE"
       /\ current_stage_idx = Len(Stages(v)) - 1
       /\ stage_results = DrawnResults(v, draw)
       /\ stage_errors = [s \in StageSet(v) |-> None]
       /\ selected_game_path = None
       /\ game_spec = NewGameSpec
       /\ yaml_data = <<>>
       /\ last_prompt = None
       /\ last_llm_response = None
       /\ expected_partial_names = <<>>
       /\ written = None
       /\ returned = None
       /\ threads = [t \in ThreadIds |-> IdleThread]
       /\ runs = 0
       /\ succeeded = {}
       /\ experiment = None
       /\ outcome = NoCall

AsmNext ==
    \/ ApiFreshRunStage
    \/ ApiFreshWriteYaml
    \/ ApiFullRunCurrentStage(None)
    \/ ApiFullRenderYaml

AsmSpec == AsmInit /\ [][AsmNext]_vars

(***************************************************************************)
(* The skeleton of prompt slots is a function of the phases stored by the  *)
(* first stage.  Under NamesSpec the parser stands on PARTIAL_PROMPTS with *)
(* a first-stage result whose phases are drawn: each phase actionable, not *)
(* actionable or silent about it, with role tasks absent, empty, or given  *)
(* for some roles and empty for others.                                    *)
(***************************************************************************)
\* phases in a drawn first-stage answer
MaxPhases == 2

Tasks == JList(<<JStr("submit bid")>>)
RoleTaskChoices ==
    {<<>>,
     << <<"role_tasks", JDict(<<>>)>> >>,
     << <<"role_tasks", JDict(<< <<"Buyer", Tasks>> >>)>> >>,
     << <<"role_tasks", JDict(<< <<"Buyer", JList(<<>>)>>,
                                 <<"Market Maker", Tasks>> >>)>> >>,
     << <<"role_tasks", JDict(<< <<"Market Maker", Tasks>>,
                                 <<"Buyer", Tasks>> >>)>> >>}
ActionableChoices ==
    {<<>>, << <<"actionable", JBool(TRUE)>> >>, << <<"actionable", JBool(FALSE)>> >>}
\* the phases an answer may give as its n-th phase
PhaseChoices(n) ==
    {JDict(<< <<"phase", JStr("Phase")>>, <<"phase_number", JNum(n)>> >>
           \o actionable \o role_tasks) :
        actionable \in ActionableChoices, role_tasks \in RoleTaskChoices}
RECURSIVE PhaseLists(_)
PhaseLists(n) ==
    IF n = 0 THEN {<<>>}
    ELSE PhaseLists(n - 1) \cup
         {Append(phases, ph) : phases \in {l \in PhaseLists(n - 1) : Len(l) = n - 1},
                               ph \in PhaseChoices(n)}

NamesInit ==
    \E phases \in PhaseLists(MaxPhases) :
       /\ variant = "parser"
       /\ state = "IDLE"
       /\ current_stage_idx = Len(ParserStages) - 1
       /\ stage_results =
             [NoResults EXCEPT !["meta_roles_phases"] =
                 JDict(<< <<"meta", GoodMeta>>, <<"roles", JList(<<GoodRole>>)>>,
                          <<"phases", JList(phases)>>,
                          <<"payoff_consequences", JList(<<>>)>> >>)]
       /\ stage_errors = NoResults
       /\ selected_game_path = JStr(ExistingSpec)
       /\ game_spec = NewGameSpec
       /\ yaml_data = <<>>
       /\ last_prompt = None
       /\ last_llm_response = None
       /\ expected_partial_names = <<>>
       /\ written = None
       /\ returned = None
       /\ threads = [t \in ThreadIds |-> IdleThread]
       /\ runs = 0
       /\ succeeded = {}
       /\ experiment = None
       /\ outcome = NoCall

NamesNext ==
    \/ ApiRunStage
    \/ \E human_feedback \in HumanFeedbacks :
          ApiRetryStageWithFeedback(human_feedback)
    \/ \E t \in ThreadIds, response \in AllResponses :
          LLMReturn(t, response) /\ Unobserved
    \/ \E t \in ThreadIds : LLMRaise(t) /\ Unobserved
    \/ \E t \in ThreadIds : ProcessResponse(t) /\ Unobserved
    \/ \E t \in ThreadIds : SetRunState(t) /\ Unobserved

NamesSpec == NamesInit /\ [][NamesNext]_vars

(***************************************************************************)
(* all_stages_successful() is a function of the result map alone.  Under   *)
(* QuerySpec the pipeline starts where a driver leaves it that ran every   *)
(* stage once, in order: run_stage(), the executor to its end,             *)
(* next_stage().  The LLM's answer to each stage is drawn from the         *)
(* responses of that stage.                                                *)
(***************************************************************************)
Fresh(v, path) ==
    [results |-> [s \in StageSet(v) |-> None],
     errors |-> [s \in StageSet(v) |-> None],
     game_spec |-> NewGameSpec, yaml_data |-> <<>>, expected |-> <<>>,
     prompt |-> None, response |-> None, succeeded |-> {}, path |-> path]

\* the pipeline `acc` after its current stage was run and answered `response`
Ran(v, stage, response, acc) ==
    LET c == IF v = "parser"
             THEN _compose_context_for_stage(stage, acc.results, acc.expected)
             ELSE [raised |-> FALSE, context |-> <<>>,
                   expected |-> acc.expected]
        a == IF v = "parser"
             THEN ParserProcess(stage, response, acc.results, acc.errors,
                                acc.game_spec, acc.yaml_data, c.expected)
             ELSE YamlProcess(stage, response, acc.results, acc.errors,
                              acc.game_spec, acc.yaml_data, c.expected)
    IN IF c.raised
       THEN [acc EXCEPT !.expected = c.expected]
       ELSE [results |-> a.results, errors |-> a.errors,
             game_spec |-> a.game_spec, yaml_data |-> a.yaml_data,
             expected |-> c.expected,
             prompt |-> StandardPrompt(stage, c.context, acc.path),
             response |-> JStr(response),
             succeeded |-> IF a.final = "SUCCESS"
                           THEN acc.succeeded \cup {stage}
                           ELSE acc.succeeded,
             path |-> acc.path]

\* the pipelines after the first n stages were run
RECURSIVE RanTo(_, _, _)
RanTo(v, path, n) ==
    IF n = 0 THEN {Fresh(v, path)}
    ELSE {Ran(v, Stages(v)[n], response, acc) :
             acc \in RanTo(v, path, n - 1),
             response \in Responses(v, Stages(v)[n])}

QueryInit ==
    \E v \in Variants :
        LET path == IF v = "parser" THEN JStr(ExistingSpec) ELSE ParsedJsonPath
        IN \E end \in RanTo(v, path, Len(Stages(v))) :
           /\ variant = v
           /\ state = "SUCCESS"
           /\ current_stage_idx = Len(Stages(v)) - 1
           /\ stage_results = end.results
           /\ stage_errors = end.errors
           /\ selected_game_path = IF v = "parser" THEN path ELSE None
           /\ game_spec = end.game_spec
           /\ yaml_data = end.yaml_data
           /\ last_prompt = end.prompt
           /\ last_llm_response = end.response
           /\ expected_partial_names = end.expected
           /\ written = None
           /\ returned = None
           /\ threads = [t \in ThreadIds |-> IdleThread]
           /\ runs = 0
           /\ succeeded = end.succeeded
           /\ experiment = None
           /\ outcome = NoCall

QueryNext ==
    \/ AllStagesSuccessful /\ Unobserved
    \/ \E output_path \in OutputPaths :
          WriteResultsToFile(output_path) /\ Unobserved

QuerySpec == QueryInit /\ [][QueryNext]_vars

(***************************************************************************)
(* The command-line drivers.  main() of parse_in_stages.py, and likewise    *)
(* main() of interpret_in_stages.py, runs a stage,                         *)
(* waits, retries while the run-state is ERROR and advances when it is     *)
(* SUCCESS; main() of interpret_in_stages_full.py runs a stage, waits,     *)
(* retries once on ERROR and advances whatever the run-state is.  Under    *)
(* DriveSpec the driver has taken all stages but the last DrivenStages     *)
(* through cycles answered with valid payloads, and takes the rest while   *)
(* the executor runs beside it.  The last call in `outcome` is the         *)
(* driver's position.                                                      *)
(***************************************************************************)
\* extraction stages the driver still has to run
DrivenStages == 2

\* the feedback main() of interpret_in_stages_full.py retries with
DriverFeedback ==
    JStr("Ensure JSON strictly matches schema. Use 'cannot infer' where appropriate.")
Waiting == IF variant = "full" THEN "WAITING" ELSE "WAITING_RESPONSE"

DriveInit ==
    \/ \E v \in Variants :
       \E end \in RanTo(v, IF v = "parser" THEN JStr(ExistingSpec)
                           ELSE ParsedJsonPath,
                        Len(Stages(v)) - DrivenStages) :
          /\ end.succeeded =
                Range(SubSeq(Stages(v), 1, Len(Stages(v)) - DrivenStages))
          /\ variant = v
          /\ state = "IDLE"
          /\ current_stage_idx = Len(Stages(v)) - DrivenStages
          /\ stage_results = end.results
          /\ stage_errors = end.errors
          /\ selected_game_path = IF v = "parser" THEN JStr(ExistingSpec)
                                  ELSE None
          /\ game_spec = end.game_spec
          /\ yaml_data = end.yaml_data
          /\ last_prompt = end.prompt
          /\ last_llm_response = end.response
          /\ expected_partial_names = end.expected
          /\ written = None
          /\ returned = None
          /\ threads = [t \in ThreadIds |-> IdleThread]
          /\ runs = 0
          /\ succeeded = end.succeeded
          /\ experiment = None
          /\ outcome = Outcome("next_stage", <<>>,
                               JStr(Stages(v)[Len(Stages(v))
                                              - DrivenStages + 1]),
                               None, None)
    \/ LET done == Len(FullStages) - 1 - DrivenStages
       IN /\ variant = "full"
          /\ state = "IDLE"
          /\ current_stage_idx = done
          /\ stage_results =
                [stage \in StageSet("full") |->
                    IF stage \in Range(SubSeq(FullStages, 1, done))
                    THEN FullPayload(stage) ELSE None]
          /\ stage_errors = [stage \in StageSet("full") |-> None]
          /\ selected_game_path = None
          /\ game_spec = NewGameSpec
          /\ yaml_data = <<>>
          /\ last_prompt = FullPrompt(FullStages[done])
          /\ last_llm_response = JStr(FullText)
          /\ expected_partial_names = <<>>
          /\ written = None
          /\ returned = None
          /\ threads = [t \in ThreadIds |-> IdleThread]
          /\ runs = 0
          /\ succeeded = Range(SubSeq(FullStages, 1, done))
          /\ experiment = None
          /\ outcome = Outcome("next_stage", <<>>, JStr(FullStages[done + 1]),
                               None, None)

\* the driver is about to run the stage next_stage() has returned
AtStage == outcome.call = "next_stage" /\ outcome.returned # None

\* parser.run_stage() of the loop
DriveRunStage ==
    /\ variant \in Variants
    /\ AtStage
    /\ RunStage
    /\ Observed(RunStageOutcome("run_stage", <<>>, None))

\* parser.wait_for_llm() returns: the run-state is no longer WAITING_RESPONSE
DriveWaitForLLM ==
    /\ variant \in Variants
    /\ outcome.call \in {"run_stage", "retry_stage_with_feedback"}
    /\ outcome.raised = None
    /\ state # Waiting
    /\ outcome' = Outcome("wait_for_llm", <<>>, None, None, None)
    /\ UNCHANGED <<variant, state, current_stage_idx, stage_results,
                   stage_errors, selected_game_path, game_spec, yaml_data,
                   last_prompt, last_llm_response, expected_partial_names,
                   written, returned, threads, runs, succeeded, experiment>>

\* state == "ERROR": parser.retry_stage_with_feedback(human_feedback)
DriveRetry ==
    /\ variant \in Variants
    /\ outcome.call = "wait_for_llm"
    /\ state = "ERROR"
    /\ RetryStageWithFeedback(None)
    /\ Observed(IF ComposeCurrent.raised \/ PromptSource = None
                THEN Outcome("retry_stage_with_feedback", <<None>>, None,
                             TypeError, None)
                ELSE Outcome("retry_stage_with_feedback", <<None>>, None, None,
                             _create_retry_with_feedback_prompt(None)))

\* state == "SUCCESS": the result is approved and parser.next_stage() called
DriveNextStage ==
    /\ variant \in Variants
    /\ outcome.call = "wait_for_llm"
    /\ state = "SUCCESS"
    /\ NextStage
    /\ Observed(Outcome("next_stage", <<>>,
                        IF current_stage_idx < Len(Stages(variant)) - 1
                        THEN JStr(Stages(variant)[current_stage_idx + 2])
                        ELSE None,
                        None, None))

\* next_stage() returned None: parser.write_results_to_file()
DriveWrite ==
    /\ variant \in Variants
    /\ outcome.call = "next_stage"
    /\ outcome.returned = None
    /\ WriteResultsToFile(None)
    /\ Observed(IF ~all_stages_successful
                THEN Outcome("write_results_to_file", <<None>>, None,
                             Exception, None)
                ELSE Outcome("write_results_to_file", <<None>>,
                             JStr("output/<selected game>.json"), None, None))

\* interp.run_current_stage() of the loop; at FINALIZE it assembles
DriveFullRun ==
    /\ variant = "full"
    /\ AtStage
    /\ FullRunCurrentStage(None)
    /\ outcome' =
          Outcome("run_current_stage", <<None>>, None,
                  IF CurrentStage = FINALIZE /\ FullFinalizeRaises(stage_results)
                  THEN AttributeError ELSE None,
                  IF CurrentStage = FINALIZE THEN None
                  ELSE FullPrompt(CurrentStage))

\* interp.wait() returns: the run-state is no longer WAITING
DriveFullWait ==
    /\ variant = "full"
    /\ outcome.call = "run_current_stage"
    /\ CurrentStage # FINALIZE
    /\ state # Waiting
    /\ outcome' = Outcome("wait", outcome.args, None, None, None)
    /\ UNCHANGED <<variant, state, current_stage_idx, stage_results,
                   stage_errors, selected_game_path, game_spec, yaml_data,
                   last_prompt, last_llm_response, expected_partial_names,
                   written, returned, threads, runs, succeeded, experiment>>

\* interp.state == ERROR after the first wait: one retry with the feedback
DriveFullRetry ==
    /\ variant = "full"
    /\ outcome.call = "wait"
    /\ outcome.args = <<None>>
    /\ state = "ERROR"
    /\ FullRunCurrentStage(DriverFeedback)
    /\ outcome' = Outcome("run_current_stage", <<DriverFeedback>>, None, None,
                          DriverFeedback)

\* nxt = interp.next_stage(), whatever the run-state is
DriveFullNextStage ==
    /\ variant = "full"
    /\ outcome.call = "wait"
    /\ state = "ERROR" => outcome.args # <<None>>
    /\ FullNextStage
    /\ outcome' = Outcome("next_stage", <<>>,
                          IF current_stage_idx < Len(FullStages) - 1
                          THEN JStr(FullStages[current_stage_idx + 2])
                          ELSE None,
                          None, None)

\* at FINALIZE, interp.state == SUCCESS: interp.render_yaml()
DriveFullRenderYaml ==
    /\ variant = "full"
    /\ outcome.call = "run_current_stage"
    /\ outcome.raised = None
    /\ CurrentStage = FINALIZE
    /\ state = "SUCCESS"
    /\ FullRenderYaml
    /\ outcome' = IF experiment = None
                  THEN Outcome("render_yaml", <<>>, None, RuntimeError, None)
                  ELSE Outcome("render_yaml", <<>>,
                               JStr("output/experiment_yaml/game_final.yaml"),
                               None, None)

DriveNext ==
    \/ DriveRunStage
    \/ DriveWaitForLLM
    \/ DriveRetry
    \/ DriveNextStage
    \/ DriveWrite
    \/ DriveFullRun
    \/ DriveFullWait
    \/ DriveFullRetry
    \/ DriveFullNextStage
    \/ DriveFullRenderYaml
    \/ \E t \in ThreadIds, response \in AllResponses :
          LLMReturn(t, response) /\ Unobserved
    \/ \E t \in ThreadIds : LLMRaise(t) /\ Unobserved
    \/ \E t \in ThreadIds : ProcessResponse(t) /\ Unobserved
    \/ \E t \in ThreadIds : SetRunState(t) /\ Unobserved

DriveSpec == DriveInit /\ [][DriveNext]_vars

(***************************************************************************)
(* The schema validator on its own.  Under ValidateSpec the parser's       *)
(* _validate_stage is applied to the two stages that list required keys    *)
(* and to drawn payloads: objects with any choice of the keys either stage *)
(* requires and of one key neither requires, lists of key names, and the   *)
(* JSON values that are no container.                                      *)
(***************************************************************************)
KeyedStages == {"meta_roles_phases", "settings_ui"}
KeyOrder == RequiredKeys("meta_roles_phases") \o RequiredKeys("settings_ui")
               \o <<"notes">>
\* the object with the keys `keys`, in the order of KeyOrder
ObjectWith(keys) ==
    JDict([i \in 1..Len(SelectSeqOf(KeyOrder, keys)) |->
              <<SelectSeqOf(KeyOrder, keys)[i], JDict(<<>>)>>])
\* the list of the names `keys`
ListOf(keys) ==
    JList([i \in 1..Len(SelectSeqOf(KeyOrder, keys)) |->
              JStr(SelectSeqOf(KeyOrder, keys)[i])])
Payloads ==
    {ObjectWith(keys) : keys \in SUBSET Range(KeyOrder)}
       \cup {ListOf(Range(RequiredKeys(stage)) \ drop) :
                stage \in KeyedStages, drop \in {{}, {"ui"}, {"roles"}}}
       \cup {JNull, JBool(TRUE), JNum(0)}

ValidateInit == Init /\ variant = "parser"

\* valid, error = self._validate_stage(stage, data)
ValidateStage(stage, data) ==
    /\ outcome' =
          LET v == _validate_stage(stage, data, expected_partial_names)
          IN Outcome("_validate_stage", <<JStr(stage), data>>,
                     IF v.raised THEN None
                     ELSE [valid |-> v.valid, error |-> v.error],
                     IF v.raised THEN v.error ELSE None,
                     None)
    /\ UNCHANGED <<variant, state, current_stage_idx, stage_results,
                   stage_errors, selected_game_path, game_spec, yaml_data,
                   last_prompt, last_llm_response, expected_partial_names,
                   written, returned, threads, runs, succeeded, experiment>>

ValidateNext == \E stage \in KeyedStages, data \in Payloads :
                   ValidateStage(stage, data)

ValidateSpec == ValidateInit /\ [][ValidateNext]_vars

(***************************************************************************)
(* The properties of the pipeline, claim by claim.                         *)
(***************************************************************************)
InFlight(t) == threads[t].pc # "idle"
\* what the executor thread t is about to get from _process_stage_response
Processed(t) ==
    _process_stage_response(threads[t].stage, threads[t].response,
                            stage_results, stage_errors, game_spec, yaml_data,
                            expected_partial_names)

\* C1: at most one stage attempt is in flight: a run_stage, give_feedback or
\* retry_stage_with_feedback made while an executor has not finished starts
\* no second executor, so no two executor threads are alive together.
C1_OneAttemptInFlight ==
    \A t, u \in ThreadIds : InFlight(t) /\ InFlight(u) => t = u

\* C2: the cursor leaves a stage only after an attempt of that stage ended
\* in SUCCESS: every step that advances the cursor starts in a state where
\* the stage under the cursor has succeeded.
C2_AdvanceOnlyAfterSuccess ==
    [][current_stage_idx' > current_stage_idx => CurrentStage \in succeeded]_vars

\* C3: the cursor never decreases except when select_game_spec puts it on
\* the first stage, and it increases only by a next_stage call, by one.
C3_CursorMoves ==
    [][/\ current_stage_idx' < current_stage_idx =>
            /\ \E path \in Paths : SelectGameSpec(path)
            /\ current_stage_idx' = 0
       /\ current_stage_idx' > current_stage_idx =>
            /\ NextStage
            /\ current_stage_idx' = current_stage_idx + 1]_vars
\* next_stage() was called three times and then once more on the last stage
C3_Witness ==
    /\ variant = "parser"
    /\ selected_game_path # None
    /\ current_stage_idx = Len(ParserStages) - 1
    /\ state = "SUCCESS"
    /\ runs = 0

\* C4: a wait always ends: whenever the run-state is WAITING_RESPONSE an
\* executor is in flight, which sets SUCCESS or ERROR once its LLM call has
\* returned or raised; no failure of run_stage or of the executor leaves
\* WAITING_RESPONSE behind with nothing left to end it.
C4_WaitingHasExecutor ==
    state = "WAITING_RESPONSE" => \E t \in ThreadIds : InFlight(t)

\* C5: an exception in the executor (the LLM call raising, or parsing,
\* validating or storing the response raising) is caught: the step that meets
\* it records an error for the dispatched stage and for no other stage and
\* lets the attempt end in ERROR, and the executor's last step sets the
\* run-state to what the attempt ended in.
C5_ExecutorCatches ==
    [][\A t \in ThreadIds :
          /\ (/\ threads'[t].pc = "set_state"
              /\ \/ threads[t].pc = "llm"
                 \/ threads[t].pc = "process" /\ Processed(t).exc # None)
             => /\ threads'[t].final = "ERROR"
                /\ stage_errors'[threads[t].stage] # None
                /\ \A s \in StageSet(variant) \ {threads[t].stage} :
                      stage_errors'[s] = stage_errors[s]
          /\ (threads[t].pc = "set_state" /\ threads'[t].pc = "idle")
             => state' = threads[t].final]_vars
\* an attempt ended in ERROR, its error filed under the dispatched stage,
\* after the cursor had moved on
C5_Witness ==
    \E t \in ThreadIds :
        /\ threads[t].pc = "set_state"
        /\ threads[t].final = "ERROR"
        /\ threads[t].stage # CurrentStage
        /\ stage_errors[threads[t].stage] # None
        /\ stage_errors[CurrentStage] = None

\* C6: no stage has both a non-null StageResult and a non-null StageError.
C6_ResultErrorExclusive ==
    \A s \in StageSet(variant) :
        ~(stage_results[s] # None /\ stage_errors[s] # None)

\* C7: all_stages_successful() returns true exactly when every stage has a
\* non-null StageResult.
C7_AllSuccessfulIffAllSet ==
    returned # None =>
        (returned = JBool(TRUE) <=>
            \A s \in StageSet(variant) : stage_results[s] # None)

\* C8: an attempt that ends in SUCCESS leaves a non-null StageResult for the
\* dispatched stage, whatever JSON value the LLM returned.
C8_SuccessStoresResult ==
    [][\A t \in ThreadIds :
          (/\ threads[t].pc = "process"
           /\ threads'[t].pc = "set_state"
           /\ threads'[t].final = "SUCCESS")
          => stage_results'[threads[t].stage] # None]_vars

\* C9: a stage has a non-null StageResult only if one of its attempts since
\* the last reset ended in SUCCESS.
C9_ResultOnlyAfterSuccess ==
    \A s \in StageSet(variant) : stage_results[s] # None => s \in succeeded

\* C10: select_game_spec(path) with an existing path puts the cursor on the
\* first stage, sets every StageResult and every StageError to None and sets
\* the run-state to SELECTING_GAME.
C10_SelectResets ==
    [][\A path \in Paths :
          isfile(path) /\ SelectGameSpec(path)
          => /\ current_stage_idx' = 0
             /\ \A s \in StageSet(variant) :
                   stage_results'[s] = None /\ stage_errors'[s] = None
             /\ state' = "SELECTING_GAME"]_vars
\* a game was selected after an attempt had run to its end
C10_Witness ==
    /\ state = "SELECTING_GAME"
    /\ runs >= 1
    /\ last_llm_response # None
    /\ \A t \in ThreadIds : ~InFlight(t)

\* an executor step that processes its response
Processes(t) == threads[t].pc = "process" /\ threads'[t].pc = "set_state"
\* the response the executor t holds is not parseable as JSON
Malformed(t) == ~JsonLoads(threads[t].stage, threads[t].response).ok
\* the labels of a retry prompt's sections, and the places of a label
SectionsOf(prompt) == prompt.sections
Places(prompt, label) ==
    {i \in 1..Len(SectionsOf(prompt)) : SectionsOf(prompt)[i].label = label}

C12_NextStageContract ==
    [][(ApiNextStage \/ ApiFreshNextStage)
       => IF current_stage_idx < Len(Stages(variant)) - 1
          THEN /\ current_stage_idx' = current_stage_idx + 1
               /\ state' = "IDLE"
               /\ outcome'.returned = JStr(Stages(variant)[current_stage_idx + 2])
          ELSE /\ current_stage_idx' = current_stage_idx
               /\ state' = "SUCCESS"
               /\ outcome'.returned = None]_vars

\* C13: writing or assembling the output while some extraction stage has a
\* null StageResult raises to the caller, creates no output document and no
\* experiment, and does not set the run-state to SUCCESS or WRITING_FILE.
C13_PrematureFinalizeRaises ==
    [][(\/ \E output_path \in OutputPaths : ApiWriteResultsToFile(output_path)
        \/ ApiFreshRunStage /\ CurrentStage = FINALIZE)
       /\ (\E s \in StageSet(variant) \ {FINALIZE} : stage_results[s] = None)
       => /\ outcome'.raised # None
          /\ written' = written
          /\ experiment' = experiment
          /\ stage_results' = stage_results
          /\ state' \in {"SUCCESS", "WRITING_FILE"} => state' = state]_vars

\* C14: the labelled sections of a retry prompt come in the order standard
\* stage prompt, previous LLM response, error message, human feedback.
C14_RetrySectionOrder ==
    (outcome.call = "retry_stage_with_feedback" /\ outcome.sent # None)
    => LET order == <<"STANDARD PROMPT", "PREVIOUS LLM RESPONSE",
                      "ERROR MESSAGE", "HUMAN FEEDBACK">>
       IN \A a, b \in 1..Len(order) :
             a < b => \A i \in Places(outcome.sent, order[a]),
                         j \in Places(outcome.sent, order[b]) : i < j

\* C15: a retry prompt has the previous-response, the error-message and the
\* human-feedback section exactly when the last response, the current
\* stage's error and the feedback given are non-empty when it is built, each
\* section carrying that value, and it always has the standard-prompt
\* section.
C15_OptionalSections ==
    [][\A human_feedback \in HumanFeedbacks :
          ApiRetryStageWithFeedback(human_feedback) /\ outcome'.sent # None
          => LET prompt == outcome'.sent
                 carries(label, value) ==
                    /\ Places(prompt, label) # {} <=> IsSet(value)
                    /\ \A i \in Places(prompt, label) :
                          SectionsOf(prompt)[i].value = value
             IN /\ carries("PREVIOUS LLM RESPONSE", last_llm_response)
                /\ carries("ERROR MESSAGE", stage_errors[CurrentStage])
                /\ carries("HUMAN FEEDBACK", human_feedback)
                /\ Cardinality(Places(prompt, "STANDARD PROMPT")) = 1]_vars
\* a retry with an empty feedback text after an attempt that succeeded: the
\* prompt quotes the response, and neither an error nor feedback
C15_Witness ==
    /\ outcome.call = "retry_stage_with_feedback"
    /\ outcome.args = <<JStr("")>>
    /\ outcome.sent # None
    /\ Places(outcome.sent, "PREVIOUS LLM RESPONSE") # {}
    /\ Places(outcome.sent, "ERROR MESSAGE") = {}
    /\ Places(outcome.sent, "HUMAN FEEDBACK") = {}
    /\ Places(outcome.sent, "STANDARD PROMPT") # {}

\* a StageError the schema validator returned: not the LLM call's exception,
\* not a JSON parse failure, not a TypeError met on the way
IsSchemaViolation(error) ==
    /\ error # None
    /\ error \notin {TransportError, TypeErrorNotIterable, TypeErrorIndex,
                     TypeErrorArgs}
    /\ Head(error.parts) \notin {"Invalid JSON: ", "Invalid JSON response: "}

\* C16: when the current stage's recorded StageError is a schema violation,
\* the retry prompt sent for the stage carries that message verbatim, in
\* every pipeline with a retry operation.
C16_RetryQuotesError ==
    [][(\/ \E human_feedback \in HumanFeedbacks :
              ApiRetryStageWithFeedback(human_feedback)
        \/ \E feedback \in HumanFeedbacks \ {None} :
              ApiFreshRetryWithFeedback(feedback))
       /\ IsSchemaViolation(stage_errors[CurrentStage])
       /\ outcome'.sent # None
       => \E i \in 1..Len(SectionsOf(outcome'.sent)) :
             SectionsOf(outcome'.sent)[i].value = stage_errors[CurrentStage]]_vars

\* the longest excerpt of a raw response a StageError may quote
RawExcerptLimit == 500
\* `part` is the beginning of `raw`, cut to the limit
IsExcerpt(part, raw) ==
    /\ part # ""
    /\ Len(part) <= RawExcerptLimit
    /\ part = Prefix(raw, Len(part))

\* C17: an attempt whose response is not parseable as JSON ends in ERROR
\* with a StageError that holds the parse exception's description and the
\* beginning of the raw response, cut to at most 500 characters; in every
\* pipeline and for every length of the response.
C17_MalformedErrorQuotesRaw ==
    [][\A t \in ThreadIds :
          Processes(t) /\ Malformed(t)
          => LET error == stage_errors'[threads[t].stage]
             IN /\ threads'[t].final = "ERROR"
                /\ error # None
                /\ \E i \in 1..Len(error.parts) : error.parts[i] = JsonDecodeError
                /\ \E i \in 1..Len(error.parts) :
                      IsExcerpt(error.parts[i], threads[t].response)]_vars

\* C18: an attempt whose response is malformed JSON ends in ERROR and leaves
\* the stage's StageResult null, whatever happened to the stage before.
C18_MalformedLeavesNoResult ==
    [][\A t \in ThreadIds :
          Processes(t) /\ Malformed(t)
          => /\ threads'[t].final = "ERROR"
             /\ stage_results'[threads[t].stage] = None]_vars

\* the same answer in the other shape: wrapped under the stage's name when
\* it was given directly, and the other way round
OtherShape(response) ==
    CASE response = FreshDirectText -> FreshText
      [] response = FreshText -> FreshDirectText
      [] OTHER -> response

\* C19: the executor takes an answer in both shapes: of an object that has
\* the stage's own name as a key, the value under that key is validated and
\* stored, of anything else the payload itself; and an answer given directly
\* and the same answer wrapped under the stage's name end in the same
\* StageResult and the same run-state.
C19_BothShapesAccepted ==
    [][\A t \in ThreadIds :
          Processes(t) /\ ~Malformed(t)
          => LET stage == threads[t].stage
                 payload == JsonLoads(stage, threads[t].response).value
                 answer == IF IsDict(payload) /\ stage \in DOMAIN payload.items
                           THEN payload.items[stage]
                           ELSE payload
                 other == _process_stage_response(
                             stage, OtherShape(threads[t].response),
                             stage_results, stage_errors, game_spec, yaml_data,
                             expected_partial_names)
             IN /\ threads'[t].final = "SUCCESS"
                   => stage_results'[stage] = answer
                /\ (variant = "fresh" /\ stage # "agent_roles")
                   => /\ other.final = threads'[t].final
                      /\ other.results[stage] = stage_results'[stage]]_vars

\* the phases of the stored first-stage result
StoredPhases == stage_results["meta_roles_phases"].items["phases"].elems
\* the slots the phases call for: <<i, j, k>> is the system (k = 1) or user
\* (k = 2) slot of the j-th role of the i-th phase; the phase is actionable
\* and the role has tasks
Slots ==
    {<<i, j, k>> \in (1..Len(StoredPhases)) \X (1..2) \X (1..2) :
        LET ph == StoredPhases[i]
        IN /\ PyIn("actionable", ph) /\ ph.items["actionable"] = JBool(TRUE)
           /\ PyIn("role_tasks", ph)
           /\ j <= Len(ph.items["role_tasks"].keys)
           /\ ph.items["role_tasks"].items[ph.items["role_tasks"].keys[j]]
                 # JList(<<>>)}
SlotName(slot) ==
    LET ph == StoredPhases[slot[1]]
        role == ph.items["role_tasks"].keys[slot[2]]
    IN (IF slot[3] = 1 THEN "system_" ELSE "user_")
       \o to_snake(role) \o "_" \o ToString(ph.items["phase_number"].n)
\* slot a comes before slot b: by phase, then by role, then system before user
Before(a, b) ==
    \/ a[1] < b[1]
    \/ a[1] = b[1] /\ a[2] < b[2]
    \/ a[1] = b[1] /\ a[2] = b[2] /\ a[3] < b[3]

\* C20: the expected partial names computed for PARTIAL_PROMPTS are
\* game_description, game_information, game_history and then, phase by phase
\* and role by role in document order, system_<role_snake>_<phase_number>
\* and user_<role_snake>_<phase_number> for every actionable phase and every
\* role of its role_tasks that has tasks, and nothing else.
C20_ExpectedPartialNames ==
    outcome.call # "" =>
       /\ Len(expected_partial_names) = 3 + Cardinality(Slots)
       /\ SubSeq(expected_partial_names, 1, 3) =
             <<"game_description", "game_information", "game_history">>
       /\ \A slot \in Slots :
             expected_partial_names[
                 4 + Cardinality({before \in Slots : Before(before, slot)})]
             = SlotName(slot)
\* names were computed for two phases, the first not actionable, the second
\* with a role without tasks before a role whose name has a capital and a
\* space
C20_Witness ==
    /\ outcome.call = "run_stage"
    /\ Len(StoredPhases) = 2
    /\ DictGet(StoredPhases[1], "actionable", None) = JBool(FALSE)
    /\ DictGet(StoredPhases[1], "role_tasks", JDict(<<>>)).keys # <<>>
    /\ expected_partial_names =
          <<"game_description", "game_information", "game_history",
            "system_market_maker_2", "user_market_maker_2">>

(***************************************************************************)
(* The validator of PARTIAL_PROMPTS against the expected names.            *)
(***************************************************************************)
\* the executor t processes an answer to PARTIAL_PROMPTS that is a list of
\* partials
ProcessesPartials(t) ==
    /\ Processes(t)
    /\ variant = "parser"
    /\ threads[t].stage = "partial_prompts"
    /\ threads[t].response \in
          {PartialsText, BasePartialsText, RepeatedPartialsText}
\* the names of the partials of the answer, in the order of the answer
AnsweredNames(t) ==
    LET pp == JsonLoads(threads[t].stage, threads[t].response)
                 .value.items["prompt_partials"].elems
    IN [i \in 1..Len(pp) |-> pp[i].items["name"].s]
\* the error message names `name`
Names(error, name) ==
    error # None /\ \E i \in 1..Len(error.parts) : error.parts[i] = name

\* C21: the PARTIAL_PROMPTS validator accepts an answer exactly when its
\* names are the expected names computed when the prompt was composed, each
\* once; an answer that lacks expected names is rejected with a message that
\* names every one of them, and an answer with unexpected names is rejected
\* with a message that names every one of them.
C21_PartialsMatchExpected ==
    [][\A t \in ThreadIds :
          ProcessesPartials(t)
          => LET names == AnsweredNames(t)
                 expected == Range(expected_partial_names)
                 error == stage_errors'[threads[t].stage]
                 accepted == threads'[t].final = "SUCCESS"
             IN /\ accepted <=>
                      /\ Range(names) = expected
                      /\ Cardinality(Range(names)) = Len(names)
                /\ \A name \in expected \ Range(names) :
                      ~accepted /\ Names(error, name)
                /\ \A name \in Range(names) \ expected :
                      ~accepted /\ Names(error, name)]_vars

(***************************************************************************)
(* The assembled ExperimentConfig against the results it was made from.    *)
(***************************************************************************)
Assembled == experiment # None
\* the roles, role prompts and agents of the stored results, and the raw
\* role id each of them carries
StoredRoles ==
    IF variant = "fresh"
    THEN stage_results["agent_roles"].items["agent_roles"].elems
    ELSE stage_results["roles_phases"].items["roles"].elems
StoredPrompts ==
    stage_results["role_prompts"].items["role_prompts"].elems
StoredAgents == stage_results["agents"].items["agents"].elems
RawIdOf(role) ==
    role.items[IF variant = "fresh" THEN "raw_role_id" ELSE "role_id_raw"].s
PromptRef(rp) ==
    rp.items[IF variant = "fresh" THEN "raw_role_id" ELSE "role_identifier"].s
AgentRef(a) ==
    a.items[IF variant = "fresh" THEN "raw_role_ref" ELSE "role_ref"].s
InRoles(ref) == \E i \in 1..Len(StoredRoles) : RawIdOf(StoredRoles[i]) = ref
\* the 1-based position of the first role whose raw id is `ref`
FirstSeen(ref) ==
    CHOOSE i \in 1..Len(StoredRoles) :
       /\ RawIdOf(StoredRoles[i]) = ref
       /\ \A j \in 1..(i - 1) : RawIdOf(StoredRoles[j]) # ref

\* C22: the assembled roles carry the ids 1..N in the order of the roles
\* answer, and every agent and every role prompt that refers to a raw id of
\* the roles answer is filed under the position of the first role with that
\* raw id, whatever the order of the references.
C22_RolesNumberedFirstSeen ==
    Assembled =>
       /\ Len(experiment.agent_roles) = Len(StoredRoles)
       /\ \A i \in 1..Len(StoredRoles) : experiment.agent_roles[i].role_id = i
       /\ \A k \in 1..Len(StoredAgents) :
             InRoles(AgentRef(StoredAgents[k]))
             => \E i \in 1..Len(experiment.agents) :
                   /\ experiment.agents[i].id = k
                   /\ experiment.agents[i].role_id =
                         FirstSeen(AgentRef(StoredAgents[k]))
       /\ \A k \in 1..Len(StoredPrompts) :
             InRoles(PromptRef(StoredPrompts[k]))
             => LET prompts ==
                       experiment.agent_roles[
                           FirstSeen(PromptRef(StoredPrompts[k]))].prompts
                IN \E i \in 1..Len(prompts) :
                      prompts[i].value =
                         JStr(PromptText(PromptRef(StoredPrompts[k])))

\* the last call was the assembly
Finalized == outcome.call \in {"run_stage", "run_current_stage"}

\* C23: a role prompt or an agent whose raw role reference names no role of
\* the roles answer is left out and the assembly completes: the call raises
\* nothing and ends in SUCCESS with an experiment in which no agent and no
\* prompt of a dangling reference appears, and every role_id of an agent and
\* of a role that carries prompts is one of 1..N.
C23_DanglingReferencesDropped ==
    Finalized =>
       /\ outcome.raised = None
       /\ Assembled
       /\ state = "SUCCESS"
       /\ \A i \in 1..Len(experiment.agents) :
             /\ experiment.agents[i].role_id \in 1..Len(StoredRoles)
             /\ InRoles(AgentRef(StoredAgents[experiment.agents[i].id]))
       /\ \A i \in 1..Len(experiment.agent_roles) :
             /\ experiment.agent_roles[i].role_id \in 1..Len(StoredRoles)
             /\ \A k \in 1..Len(experiment.agent_roles[i].prompts) :
                   \E ref \in RawIds :
                      /\ InRoles(ref)
                      /\ experiment.agent_roles[i].prompts[k].value =
                            JStr(PromptText(ref))
\* an assembly of results in which a role prompt and an agent refer to a
\* role that is not there, beside an agent and a prompt that are kept
C23_Witness ==
    /\ Finalized
    /\ Assembled
    /\ \E k \in 1..Len(StoredAgents) : ~InRoles(AgentRef(StoredAgents[k]))
    /\ \E k \in 1..Len(StoredPrompts) : ~InRoles(PromptRef(StoredPrompts[k]))
    /\ experiment.agents # <<>>
    /\ \E i \in 1..Len(experiment.agent_roles) :
          experiment.agent_roles[i].prompts # <<>>

\* the fields of the stored results that hold the sentinel
Sentinels ==
    LET role == IF StoredRoles = <<>> THEN JDict(<<>>) ELSE StoredRoles[1]
        meta == IF variant = "fresh" THEN stage_results["meta"].items["meta"]
                ELSE stage_results["meta_partials"].items["meta"]
        field == stage_results["state"].items["state"]
                    .items["meta_information"].elems[1]
        held(d, key) == DictGet(d, key, None) = CannotInfer
    IN {f \in {"name", "description"} : held(meta, f)}
       \cup {f \in {"llm_type", "llm_params"} : held(role, f)}
       \cup {f \in {"field_default"} : held(field, "default")}
       \cup {f \in {"task_phases"} :
               held(role, IF variant = "fresh" THEN "task_phases"
                          ELSE "task_phases_inferred")}
       \cup {f \in {"manager_type"} :
               /\ variant = "fresh"
               /\ held(stage_results["manager"].items["manager"], "type")}
\* the values of all fields of the assembled experiment
AssembledValues ==
    LET e == experiment
        sections == {e.state.meta_information, e.state.private_information,
                     e.state.public_information}
    IN {e.name, e.description, e.manager.type}
       \cup {e.runner[k] : k \in DOMAIN e.runner}
       \cup UNION {{e.prompt_partials[i].name, e.prompt_partials[i].content} :
                      i \in 1..Len(e.prompt_partials)}
       \cup UNION {{e.agent_roles[i].name, e.agent_roles[i].llm_type,
                    e.agent_roles[i].llm_params, e.agent_roles[i].task_phases}
                   \cup {e.agent_roles[i].prompts[k].value :
                           k \in 1..Len(e.agent_roles[i].prompts)} :
                      i \in 1..Len(e.agent_roles)}
       \cup UNION {UNION {{s[i].name, s[i].type, s[i].default} : i \in 1..Len(s)} :
                      s \in sections}

\* C24: no field of the assembled experiment holds the literal "cannot
\* infer": where a stored result holds it, the experiment has the field's
\* declared default: an empty description, no llm_type, empty llm_params,
\* no task phases, no default of a state field, the manager type
\* TurnBasedPhaseManager.
C24_NoSentinelInOutput ==
    Assembled =>
       /\ CannotInfer \notin AssembledValues
       /\ "description" \in Sentinels => experiment.description = JStr("")
       /\ \A i \in 1..Len(experiment.agent_roles) :
             /\ "llm_type" \in Sentinels
                => experiment.agent_roles[i].llm_type = None
             /\ "llm_params" \in Sentinels
                => experiment.agent_roles[i].llm_params = JDict(<<>>)
             /\ "task_phases" \in Sentinels
                => experiment.agent_roles[i].task_phases = JList(<<>>)
       /\ "field_default" \in Sentinels
          => experiment.state.meta_information[1].default = None
       /\ "manager_type" \in Sentinels
          => experiment.manager.type = JStr("TurnBasedPhaseManager")

\* the partials contributed to the merge, in the order they are met: those
\* of the meta stage, then those of the generated-partials stage
Contributed ==
    stage_results["meta_partials"].items["prompt_partials"].elems
    \o stage_results["prompt_partials"].items["prompt_partials"].elems
Substantive(content) == content \notin {JStr(""), CannotInfer}
\* the contributions to the partial `name`, by their places
ContributionsTo(name) ==
    {i \in 1..Len(Contributed) : Contributed[i].items["name"] = name}

C27_ControllerWritesUnderLock ==
    [][(/\ Quiet
        /\ <<current_stage_idx, state, stage_results, stage_errors>>'
              # <<current_stage_idx, state, stage_results, stage_errors>>)
       => HoldsLock(variant, outcome'.call)]_vars

\* C28: when the executor has processed the response of an invocation,
\* last_prompt is the prompt that invocation handed to the LLM, be it the
\* stage's standard prompt, an override or a retry prompt, and
\* last_llm_response is the raw response of that invocation.
C28_PromptRecordCurrent ==
    [][\A t \in ThreadIds :
          Processes(t)
          => /\ last_prompt' = outcome.sent
             /\ last_llm_response' = JStr(threads[t].response)]_vars

\* C29: a run operation that starts an executor returns with the run-state
\* set to waiting and the executor still before its LLM call, and what it
\* returns is the identifier of the stage the cursor was on; in every
\* pipeline.
C29_RunStageReturnsStage ==
    [][(Quiet /\ ~Quiet' /\ outcome'.call \in {"run_stage", "run_current_stage"})
       => /\ state' \in {"WAITING_RESPONSE", "WAITING"}
          /\ \E t \in ThreadIds : /\ threads'[t].pc = "llm"
                                  /\ threads'[t].stage = CurrentStage
          /\ outcome'.returned = JStr(CurrentStage)]_vars


\* every attempt the driver has started was answered, and with a payload that
\* passes its stage
AllAnswersValid ==
    /\ \A stage \in StageSet(variant) : stage_errors[stage] = None
    /\ \A t \in ThreadIds :
          /\ threads[t].pc # "llm"
          /\ threads[t].pc = "process" => Processed(t).final = "SUCCESS"
          /\ threads[t].pc = "set_state" => threads[t].final = "SUCCESS"

\* C30: when the driver has taken every stage through one run / wait / next
\* cycle and every attempt was answered with a valid payload, every stage has
\* succeeded once the last next_stage() has returned nothing, writing the
\* results succeeds, and assembling succeeds with roles numbered 1..N.
C30_EndToEndSucceeds ==
    AllAnswersValid =>
       /\ (variant = "parser" /\ outcome.call = "next_stage"
           /\ outcome.returned = None) => all_stages_successful
       /\ (variant \in {"parser", "full"}
           /\ outcome.call \in {"write_results_to_file", "render_yaml"})
             => outcome.raised = None
       /\ (variant = "full" /\ outcome.call = "run_current_stage"
           /\ CurrentStage = FINALIZE)
             => /\ outcome.raised = None
                /\ Assembled
                /\ Len(experiment.agent_roles) = Len(StoredRoles)
                /\ \A i \in 1..Len(StoredRoles) :
                      experiment.agent_roles[i].role_id = i


\* the executor `t` was dispatched for `stage` and makes its writes to the
\* stage's slots in this step: it processes its response, or its LLM call
\* raises
WritesFor(t, stage) ==
    /\ threads[t].stage = stage
    /\ threads[t].pc \in {"llm", "process"}
    /\ threads'[t].pc = "set_state"
\* a successful select_game_spec
Selects == state' = "SELECTING_GAME" /\ current_stage_idx' = 0

\* C31: a stage's result changes only in the processing step of an executor
\* dispatched for that stage or in a successful select_game_spec, and the
\* same holds of its error; so an executor writes only the slots of the
\* stage it was dispatched for, wherever the cursor is, and next_stage, the
\* retry-prompt construction and the other calls leave every slot alone.
C31_SlotsWrittenByOwnAttempt ==
    [][\A stage \in StageSet(variant) :
          (\/ stage_results'[stage] # stage_results[stage]
           \/ stage_errors'[stage] # stage_errors[stage])
          => \/ Selects
             \/ \E t \in ThreadIds : WritesFor(t, stage)]_vars

\* an executor has written the result of a stage the cursor has left
C31_Witness ==
    \E t \in ThreadIds :
       /\ threads[t].pc = "set_state"
       /\ threads[t].final = "SUCCESS"
       /\ Stages(variant)[current_stage_idx + 1] # threads[t].stage
       /\ stage_results[threads[t].stage] # None
       /\ stage_results[CurrentStage] = None
       /\ stage_errors[CurrentStage] = None


\* the required top-level keys of `stage` the payload does not have, in the
\* order they are declared
AbsentKeys(stage, data) ==
    SelectSeqOf(RequiredKeys(stage),
                {k \in Range(RequiredKeys(stage)) :
                    ~(IsDict(data) /\ k \in DOMAIN data.items)})

\* C32: for META_ROLES_PHASES and SETTINGS_UI the validator returns a
\* failure exactly when a required top-level key is absent from the payload,
\* and the failure message names the absent keys, all of them and no other,
\* in the order they are declared.
C32_MissingKeysNamed ==
    outcome.call = "_validate_stage" =>
       LET stage == outcome.args[1].s
           absent == AbsentKeys(stage, outcome.args[2])
       IN /\ outcome.raised = None
          /\ outcome.returned.valid <=> absent = <<>>
          /\ absent # <<>> =>
                outcome.returned.error =
                   Msg(<<"Missing required fields: ">> \o Join(absent))


\* the driver of the staged parser, or of the YAML interpreter, is in its
\* loop on get_state() and reads SUCCESS
DriverObservesSuccess ==
    /\ variant \in Variants
    /\ outcome.call = "wait_for_llm"
    /\ state = "SUCCESS"

\* C33: whenever the driver loop reads the run-state SUCCESS, the error of
\* the stage at the cursor is None: the assertion of the loop holds.
C33_DriverAssertionHolds ==
    DriverObservesSuccess => stage_errors[CurrentStage] = None

\* the driver reads SUCCESS for a stage it had to retry
C33_Witness ==
    /\ DriverObservesSuccess
    /\ current_stage_idx = Len(Stages(variant)) - DrivenStages
    /\ runs = 2
    /\ stage_errors[CurrentStage] = None
    /\ stage_results[CurrentStage] # None


\* wait_for_llm() / wait() returns in this step
WaitReturns ==
    /\ outcome'.call \in {"wait_for_llm", "wait"}
    /\ outcome.call \notin {"wait_for_llm", "wait"}

\* C34: when wait_for_llm() / wait() returns, the attempt the preceding run
\* dispatched has finished: the run-state is SUCCESS or ERROR and no
\* executor is left that could still write the run-state, a result or an
\* error.
C34_WaitReturnsAfterAttempt ==
    [][WaitReturns =>
          /\ state' \in {"SUCCESS", "ERROR"}
          /\ \A t \in ThreadIds : threads'[t].pc = "idle"]_vars


\* the 1-based position of `stage` in the stage list
StageIndex(stage) ==
    CHOOSE i \in 1..Len(Stages(variant)) : Stages(variant)[i] = stage
\* an executor dispatched before the last successful select_game_spec: it
\* runs for a stage beyond the cursor, and only a select moves the cursor
\* back
DispatchedBeforeSelect(t) ==
    /\ threads[t].pc # "idle"
    /\ StageIndex(threads[t].stage) > current_stage_idx + 1

\* C35: an executor dispatched before the last successful select_game_spec
\* writes nothing into the reset pipeline: none of its steps changes a
\* result, an error or the run-state.
C35_StaleExecutorWritesNothing ==
    [][\A t \in ThreadIds :
          (DispatchedBeforeSelect(t) /\ threads'[t] # threads[t])
          => /\ stage_results' = stage_results
             /\ stage_errors' = stage_errors
             /\ state' = state]_vars


\* the executor `t` makes the writes of its attempt in this step, and the
\* attempt ends in ERROR
FailsIn(t) ==
    /\ threads[t].pc \in {"llm", "process"}
    /\ threads'[t].pc = "set_state"
    /\ threads'[t].final = "ERROR"

\* C36: an attempt that ends in ERROR leaves the result of its stage as it
\* was: a transport failure, a malformed answer and a payload the stage
\* rejects change no stored result.
C36_FailedAttemptKeepsResult ==
    [][\A t \in ThreadIds :
          FailsIn(t) => stage_results'[threads[t].stage]
                           = stage_results[threads[t].stage]]_vars


\* C37: the PREVIOUS LLM RESPONSE section of a retry prompt quotes a
\* response to an attempt of the stage the prompt is built for: an answer
\* the LLM gives for that stage, never the answer it gave for another stage.
C37_RetryQuotesOwnResponse ==
    (outcome.call = "retry_stage_with_feedback" /\ outcome.sent # None)
    => \A i \in Places(outcome.sent, "PREVIOUS LLM RESPONSE") :
          \E response \in Responses(variant, CurrentStage) :
             SectionsOf(outcome.sent)[i].value = JStr(response)


\* the document `doc` carries, field by field, what the stored results of
\* the parser's stages hold
AgreesWithResults(doc) ==
    LET first == stage_results["meta_roles_phases"].items
        settings == stage_results["settings_ui"].items
    IN /\ doc.meta = first["meta"]
       /\ doc.roles = first["roles"]
       /\ doc.phases = first["phases"]
       /\ doc.payoff_consequences = first["payoff_consequences"]
       /\ doc.state = stage_results["state"].items["state"]
       /\ doc.settings = settings["settings"]
       /\ doc.ui = settings["ui"]
       /\ doc.prompt_partials =
             stage_results["partial_prompts"].items["prompt_partials"]

\* C38: in the staged parser, whenever all_stages_successful() holds, the
\* document write_results_to_file writes takes every field from the stored
\* result of the field's stage: none is null or left from another attempt.
C38_GameSpecAgreesWithResults ==
    (variant = "parser" /\ all_stages_successful)
    => /\ AgreesWithResults(to_dict(game_spec))
       /\ written # None => AgreesWithResults(written)


\* C39: in the staged parser, whenever the run-state is SUCCESS the stage at
\* the cursor has a result stored.
C39_SuccessHasCurrentResult ==
    (variant = "parser" /\ state = "SUCCESS")
    => stage_results[CurrentStage] # None


=============================================================================
